---- MODULE Spec2Model ----
(***************************************************************************)
(* State-machine model of locologic's interlocking (signals, sensors) and  *)
(* train controller (speed ramp, block requests).                          *)
(*                                                                         *)
(* Sources: src/src/control/rail_system/components/mod.rs,                 *)
(*          src/src/control/rail_system/components/signal_checks.rs,       *)
(*          src/src/control/train.rs, src/src/general/mod.rs.              *)
(***************************************************************************)
EXTENDS Integers, Sequences, FiniteSets, TLC

(***************************************************************************)
(* Bounds of the model.                                                    *)
(***************************************************************************)
NumTrains == 2    \* train addresses 1..NumTrains
MaxQueue == 2     \* a request is only issued while the queue is shorter
MaxTasks == 2     \* concurrently live runs of Signal::next
MaxTimers == 1    \* concurrently live grace timers per sensor
MaxOperands == 4  \* longest chain of Status values joined with |
MaxBranches == 3  \* most waiters and most childs of a WaitingNode
MaxNodes == 3     \* most nodes of the graph of a Builder that adds and removes
MaxCoord == 2     \* largest x, y and z of a Coord handed to step and distance

Trains == 1..NumTrains
NoTrain == 0      \* Option::None of an Option<Address<TrainAddr>>
NoNode == 0       \* Option::None of an Option<NodeIndex>

Range(f) == {f[i] : i \in DOMAIN f}

RECURSIVE Reverse(_)
Reverse(s) == IF s = <<>> THEN <<>> ELSE Append(Reverse(Tail(s)), Head(s))

RECURSIVE SeqMin(_)
SeqMin(s) == IF Len(s) = 1 THEN s[1]
             ELSE LET m == SeqMin(Tail(s)) IN IF s[1] < m THEN s[1] ELSE m

(***************************************************************************)
(* The rail graph (Railroad::road).  The node index is the position in     *)
(* NodeKind / NodeAddr; Edges lists the directed edges in the order in     *)
(* which Builder::connect added them.                                      *)
(*                                                                         *)
(*   1:Signal(1) -> 5:Sensor(2) -> 3:Switch(1) <- 2:Signal(2)              *)
(*                                 3:Switch(1) -> 4:Sensor(1)              *)
(*                                                                         *)
(* Signals 1 and 2 lead into the same block: both reach sensor 1 through   *)
(* the switch.                                                             *)
(***************************************************************************)
NodeKind == <<"Signal", "Signal", "Switch", "Sensor", "Sensor">>
NodeAddr == <<1, 2, 1, 1, 2>>
Edges == << <<1, 5>>, <<5, 3>>, <<2, 3>>, <<3, 4>> >>

Nodes == DOMAIN NodeKind
SignalAddrs == {NodeAddr[n] : n \in {m \in Nodes : NodeKind[m] = "Signal"}}
SensorAddrs == {NodeAddr[n] : n \in {m \in Nodes : NodeKind[m] \in {"Sensor", "Station"}}}
representing_node(s) == CHOOSE n \in Nodes : NodeKind[n] = "Signal" /\ NodeAddr[n] = s

\* Crossings: the two node handles of a Cross (Cross::nodes). None in this graph.
CrossNodes(n) == <<n, n>>

\* petgraph's Graph::neighbors walks a node's edge list newest edge first.
OutNbrs(n) ==
    LET es == SelectSeq(Edges, LAMBDA e : e[1] = n)
    IN  Reverse([i \in 1..Len(es) |-> es[i][2]])
InNbrs(n) ==
    LET es == SelectSeq(Edges, LAMBDA e : e[2] = n)
    IN  Reverse([i \in 1..Len(es) |-> es[i][1]])
\* Graph::neighbors_undirected: the outgoing edges, then the incoming ones.
UndirNbrs(n) == OutNbrs(n) \o InNbrs(n)

(***************************************************************************)
(* Block discovery, signal_checks.rs.                                      *)
(* A search state is [stack, disc, insigs, sensors].                       *)
(***************************************************************************)
\* handle_found_node + handle_cross_route: push succ, and behind a Cross
\* parent also the crossing's other node handle.
handle_found_node(stack, succ, parent) ==
    IF NodeKind[parent] = "Cross"
    THEN LET c == CrossNodes(parent)
         IN  Append(Append(stack, succ), IF c[1] = parent THEN c[2] ELSE c[1])
    ELSE Append(stack, succ)

\* handle_successor: VisitMap::visit marks succ and returns true on the FIRST
\* visit, on which the function returns; only an already discovered succ
\* goes on to the match on the parent node.
handle_successor(st, succ, parent, sig) ==
    IF succ \notin st.disc
    THEN [st EXCEPT !.disc = @ \cup {succ}]
    ELSE IF NodeKind[parent] = "Signal"
         THEN IF (\A n \in Range(OutNbrs(parent)) : n \notin st.disc) /\ parent # sig
              THEN [st EXCEPT !.insigs = Append(@, NodeAddr[parent])]
              ELSE st
         ELSE [st EXCEPT !.stack = handle_found_node(@, succ, parent)]

RECURSIVE handle_successors(_, _, _, _)
handle_successors(st, succs, parent, sig) ==
    IF succs = <<>> THEN st
    ELSE handle_successors(handle_successor(st, Head(succs), parent, sig),
                           Tail(succs), parent, sig)

\* The inner while loop of search_block: search_node_neighbours pops the
\* front of the stack and hands every undirected neighbour to
\* handle_successor; a popped Sensor node is appended to sensors.
RECURSIVE search_loop(_, _)
search_loop(st, sig) ==
    IF st.stack = <<>> THEN st
    ELSE LET node == Head(st.stack)
             st1  == handle_successors([st EXCEPT !.stack = Tail(@)],
                                       UndirNbrs(node), node, sig)
         IN  search_loop([st1 EXCEPT !.sensors =
                             IF NodeKind[node] = "Sensor"
                             THEN Append(@, NodeAddr[node]) ELSE @], sig)

RECURSIVE search_starts(_, _, _)
search_starts(st, starts, sig) ==
    IF starts = <<>> THEN st
    ELSE search_starts(
             search_loop([st EXCEPT !.disc = @ \cup {Head(starts)},
                                    !.stack = <<Head(starts)>> \o @], sig),
             Tail(starts), sig)

\* Signal::search_block(signal node) = (in_signals, sensors)
search_block(sig) ==
    search_starts([stack |-> <<>>, disc |-> {}, insigs |-> <<>>, sensors |-> <<>>],
                  OutNbrs(sig), sig)

\* Signal::initialize: the two lists a signal keeps after build().
block_sensors == [s \in SignalAddrs |-> search_block(representing_node(s)).sensors]
other_input_signals == [s \in SignalAddrs |-> search_block(representing_node(s)).insigs]


\* enum SignalType
SignalType == {"Block", "Path", "IntelligentPath"}

(***************************************************************************)
(* State.                                                                  *)
(***************************************************************************)
VARIABLES
    signal,             \* Signal: [status, trains, requesters] per signal address
    calculation_group,  \* Signal::calculation_group: whose group mutex a signal uses
    sigLock,            \* holder of each signal's Mutex<Signal>
    groupLock,          \* holder of each group mutex (named by its first owner)
    sensor,             \* Sensor: [status, level, train] per sensor address
    timer,              \* wait_and_run tasks per sensor: [spawned, waiting]
    task,               \* runs of Signal::next: [pc, sig, kind, owner]
    call,               \* Train::reset_position per train: [pc, sig]
    subscription,       \* TrainGranted messages buffered for a caller's receiver
    returned,           \* the call that returned in the latest step, and its value
    decided,            \* the run of Signal::next that ended in the latest step
    last_level,         \* per sensor, the level event it received last
    sent,               \* the bus messages published by the latest step
    speed,              \* Train::speed
    speed_updater,      \* Train::speed_updater holds a JoinHandle
    set_speed,          \* the running call of Train::set_speed: [pc, speed]
    ramp,               \* the task running Train::speed_accelerator
    overflow_checks,    \* the build's overflow checks: "on" panics, "off" wraps;
                        \* "open" until the first overflow shows which it is
    last_msg,           \* the speed of the latest TrainSpeed message
    switch,             \* Switch: [dir, updated] per switch address
    graph,              \* Railroad::road: which of Roads the railroad was built on
    train_position,     \* Train::position per train, NoNode before Train::new
    route,              \* Train::route per train: Option<VecDeque<(NodeIndex, bool)>>
    planned,            \* the latest call of Railroad::shortest_path and its result
    builder,            \* Builder::road: the rails of every edge connected so far
    connected,          \* what the latest connect / connect_bidirectional returned
    joined,             \* the latest chain of Status joins: operands and results
    fulfilment,         \* the latest WaitingNode evaluated and what it evaluated to
    building,           \* a Builder that adds and removes: road and its address maps
    measured,           \* the latest Coord::step / distance call and what it gave
    sig_type            \* Signal::sig_type per signal address, fixed by add_signal

ilVars == <<signal, calculation_group, sigLock, groupLock, sensor, timer, task,
            call, subscription, returned, decided, last_level>>
spVars == <<speed, speed_updater, set_speed, ramp, overflow_checks, last_msg>>
rtVars == <<switch, graph, train_position, route, planned>>
bdVars == <<builder, connected, joined, fulfilment, building, measured, sig_type>>
vars == <<ilVars, spVars, rtVars, bdVars, sent>>

FreeLock == <<"free", 0>>
TaskHolder(k) == <<"task", k>>
TrainHolder(t) == <<"train", t>>
Tasks == 1..MaxTasks
IdleTask == [pc |-> "unused", sig |-> 0, kind |-> "none", owner |-> NoTrain]
IdleCall == [pc |-> "idle", sig |-> 0]
NoReturn == [train |-> NoTrain, value |-> FALSE]
Returned(t, v) == [train |-> t, value |-> v]
NoDecision == [sig |-> 0, result |-> "none"]
Decision(s, r) == [sig |-> s, result |-> r]

TrainGranted(s, t) == [kind |-> "TrainGranted", a |-> s, b |-> t]
TrainOnSensor(a, t) == [kind |-> "TrainOnSensor", a |-> a, b |-> t]

(***************************************************************************)
(* Status and Sensor, components/mod.rs.                                   *)
(***************************************************************************)
\* enum Status
Status == {"Free", "Reserved", "PathFree", "Occupied"}

\* a | that gives back its left operand
bitor_self(self, rhs) == self

\* impl BitOr for Status
BitOr(self, rhs) ==
    CASE self = "Free" -> rhs
      [] self = "Reserved" -> IF rhs = "Occupied" THEN rhs ELSE self
      [] self = "PathFree" -> IF rhs = "Free" THEN self ELSE rhs
      [] self = "Occupied" -> self

\* a | b | c ..., evaluated left to right as Rust does, and right to left
RECURSIVE fold_left(_)
fold_left(ops) ==
    IF Len(ops) = 1 THEN ops[1]
    ELSE BitOr(fold_left(SubSeq(ops, 1, Len(ops) - 1)), ops[Len(ops)])
RECURSIVE fold_right(_)
fold_right(ops) ==
    IF Len(ops) = 1 THEN ops[1] ELSE BitOr(ops[1], fold_right(Tail(ops)))

\* Sensor::new
NewSensor == [status |-> "Free", level |-> "Free", train |-> NoTrain]

\* Sensor::block handing the sensor to whoever asks
block_takeover(sn, train) ==
    [sn EXCEPT !.train = train, !.status = BitOr("Reserved", sn.status)]

\* Sensor::block: the sensor afterwards (the returned bool is block_returns)
block(sn, train) ==
    IF sn.train # NoTrain THEN sn
    ELSE [sn EXCEPT !.train = train, !.status = BitOr("Reserved", sn.status)]
block_returns(sn, train) == IF sn.train # NoTrain THEN sn.train = train ELSE TRUE

\* Sensor::free
free(sn, train) ==
    IF sn.train # NoTrain /\ sn.train = train
    THEN [sn EXCEPT !.train = NoTrain,
                    !.status = IF sn.level = "Free" THEN "Free" ELSE "Occupied"]
    ELSE sn

\* Sensor::free_sensor, the call a grace timer runs when it elapses
free_sensor(sn) ==
    IF sn.status = "Occupied" THEN sn
    ELSE free([sn EXCEPT !.status = "Free"], sn.train)

(***************************************************************************)
(* Signal, components/mod.rs and signal_checks.rs.                         *)
(***************************************************************************)
\* Signal::new
NewSignal == [status |-> "Free", trains |-> <<>>, requesters |-> <<>>]

\* Option<Vec<Address<SensorAddr>>>
NoRoad == [some |-> FALSE, road |-> <<>>]
SomeRoad(r) == [some |-> TRUE, road |-> r]

\* Signal::block_behaviour: every known sensor must be Free or PathFree
block_behaviour(sensors) ==
    IF \E i \in DOMAIN sensors :
           /\ sensors[i] \in SensorAddrs
           /\ sensor[sensors[i]].status \notin {"Free", "PathFree"}
    THEN NoRoad
    ELSE SomeRoad(sensors)

\* Signal::trigger_update
trigger_update(status, trigger) ==
    CASE trigger = "Reserved" -> IF status = "Occupied" THEN "Occupied" ELSE "Reserved"
      [] trigger = "Occupied" -> "Occupied"
      [] OTHER -> status

\* next with the guard of line 1124 the other way round: the head is granted
\* whenever the road is free
next_train_head(q, road) ==
    IF ~road.some THEN NoTrain
    ELSE IF q = <<>> THEN NoTrain
    ELSE Head(q)

\* next granting the head without looking at the result of drive
next_train_any_road(q, road) ==
    IF q = <<>> THEN NoTrain ELSE Head(q)

\* next granting the newest requester on a free road
next_train_last(q, road) ==
    IF ~road.some THEN NoTrain
    ELSE IF q = <<>> THEN NoTrain
    ELSE q[Len(q)]

\* Signal::next, lines 1123-1129: the train the run grants to, NoTrain when it
\* grants nothing.  With a free road the code returns when the queue is NOT
\* empty, and otherwise pops its front.
next_train(q, road) ==
    IF ~road.some THEN NoTrain
    ELSE IF q # <<>> THEN NoTrain
    ELSE Head(q)

\* Signal::initialize / reset_group run over the signals in the order build()
\* visits them: a signal takes over the group mutex its smallest peer holds
\* at that moment when that peer's address is below its own.
RECURSIVE GroupsAfter(_, _)
GroupsAfter(order, groups) ==
    IF order = <<>> THEN groups
    ELSE LET s == Head(order)
             peers == other_input_signals[s]
         IN  GroupsAfter(Tail(order),
                 IF peers # <<>> /\ SeqMin(peers) < s
                 THEN [groups EXCEPT ![s] = groups[SeqMin(peers)]]
                 ELSE groups)

\* The orders in which build() can visit the signals (HashMap::values).
BuildOrders ==
    {o \in [1..Cardinality(SignalAddrs) -> SignalAddrs] :
        \A i, j \in DOMAIN o : i # j => o[i] # o[j]}

\* Railroad::get_signal_of_block: the nearest signal found by a breadth-first
\* search over the reversed graph from the node; NoNode when there is none.
RECURSIVE reverse_bfs(_, _)
reverse_bfs(queue, seen) ==
    IF queue = <<>> THEN NoNode
    ELSE LET n == Head(queue)
             new == SelectSeq(InNbrs(n), LAMBDA m : m \notin seen)
         IN  IF NodeKind[n] = "Signal" THEN n
             ELSE reverse_bfs(Tail(queue) \o new, seen \cup Range(new))
get_signal_of_block(position) == reverse_bfs(InNbrs(position), {position} \cup Range(InNbrs(position)))

(***************************************************************************)
(* Speed, mod.rs 40-122, over DefaultSpeedType = u8, general/mod.rs 6-25.  *)
(***************************************************************************)
SpeedModulus == 256          \* u8 holds 0..255
default_acceleration == 5

Stop == [k |-> "Stop", v |-> 0]
EmergencyStop == [k |-> "EmergencyStop", v |-> 0]
Drive(n) == [k |-> "Drive", v |-> n]

\* the targets handed to set_speed
SpeedInputs == {EmergencyStop, Stop, Drive(1), Drive(253)}

\* Ord::cmp, lines 98-122, as -1 (Less), 0 (Equal), 1 (Greater)
cmp(self, other) ==
    IF self = other THEN 0
    ELSE IF self.k = "Stop"
         THEN IF other = EmergencyStop THEN 1 ELSE -1
    ELSE IF self.k = "EmergencyStop" THEN -1
    ELSE IF other.k = "Drive"
         THEN IF self.v < other.v THEN -1 ELSE IF self.v = other.v THEN 0 ELSE 1
         ELSE 1
Less(a, b) == cmp(a, b) = -1
Greater(a, b) == cmp(a, b) = 1

\* SpeedType::sub_to_speed, general/mod.rs 11-14: self.checked_sub(other)
sub_to_speed(self, other) == IF self >= other THEN Drive(self - other) ELSE Stop

\* Sub::sub, lines 74-87: with both sides Drive the receiver of sub_to_speed is
\* the value of rhs
Sub(self, rhs) ==
    IF rhs.k # "Drive" THEN self
    ELSE IF self.k = "Stop" THEN Stop
    ELSE IF self.k = "EmergencyStop" THEN EmergencyStop
    ELSE sub_to_speed(rhs.v, self.v)

\* Add::add, lines 56-72.  The sum of two Drive values is a u8 addition: it
\* overflows when Overflows holds and then either panics or wraps.
Overflows(self, rhs) ==
    self.k = "Drive" /\ rhs.k = "Drive" /\ self.v + rhs.v >= SpeedModulus
Add(self, rhs) ==
    IF rhs.k # "Drive" THEN self
    ELSE IF self.k # "Drive" THEN Drive(rhs.v)
    ELSE Drive((rhs.v + self.v) % SpeedModulus)

TrainSpeed(spd) == [kind |-> "TrainSpeed", a |-> 1, b |-> spd]

NoRamp == [pc |-> "none", actual_speed |-> Stop, speed |-> Stop, start |-> Stop,
           notified |-> FALSE]
IdleSetSpeed == [pc |-> "idle", speed |-> Stop]

(***************************************************************************)
(* The graphs a railroad is built on, as Builder hands them to build():    *)
(* per node its kind, address, Position and, for a switch, the neighbour   *)
(* on its straight branch; per edge the rails Builder::connect was given   *)
(* (connect stores whatever Vec<Rail> it gets, the empty one included).    *)
(*                                                                         *)
(* Road 1 is the interlocking graph above.  Road 2 is a passing loop:      *)
(*                                                                         *)
(*   1:Sensor(1) -> 2:Switch(1) -> 3:Signal(1) -> 5:Switch(2) -> 6:Sensor(2) *)
(*                  2:Switch(1) -> 4:Signal(2) -> 5:Switch(2)              *)
(***************************************************************************)
Rail(length, dir) == [length |-> length, dir |-> dir]
Coord(x, y, z) == <<x, y, z>>

Roads == <<
    [kind      |-> NodeKind,
     addr      |-> NodeAddr,
     edges     |-> Edges,
     rails     |-> << <<Rail(0, "East")>>, <<Rail(0, "East")>>,
                      <<Rail(0, "Northeast")>>, <<Rail(0, "East")>> >>,
     pos       |-> <<Coord(0, 0, 0), Coord(1, 1, 0), Coord(0, 2, 0),
                     Coord(0, 3, 0), Coord(0, 1, 0)>>,
     some_node |-> <<NoNode, NoNode, 5, NoNode, NoNode>>],
    [kind      |-> <<"Sensor", "Switch", "Signal", "Signal", "Switch", "Sensor">>,
     addr      |-> <<1, 1, 1, 2, 2, 2>>,
     edges     |-> << <<1, 2>>, <<2, 3>>, <<2, 4>>, <<3, 5>>, <<4, 5>>, <<5, 6>> >>,
     rails     |-> << <<>>, <<>>, <<Rail(1, "East")>>, <<>>, <<>>, <<>> >>,
     pos       |-> <<Coord(0, 0, 0), Coord(0, 1, 0), Coord(0, 11, 0),
                     Coord(0, 2, 0), Coord(0, 3, 0), Coord(0, 4, 0)>>,
     some_node |-> <<NoNode, 3, NoNode, NoNode, 3, NoNode>>] >>

RoadNodes(g) == DOMAIN g.kind
SwitchAddrs == UNION {{Roads[r].addr[n] : n \in {m \in RoadNodes(Roads[r]) :
                                                 Roads[r].kind[m] = "Switch"}} :
                      r \in DOMAIN Roads}

\* Node::is_driveable
is_driveable(g, n) == g.kind[n] \in {"Sensor", "Station"}

(***************************************************************************)
(* Switch, components/mod.rs 637-787.                                      *)
(***************************************************************************)
\* Switch::new
NewSwitch == [dir |-> "Straight", updated |-> FALSE]

\* impl From<bool> for SwDir
SwDirFrom(b) == IF b THEN "Straight" ELSE "Curved"

SwitchMsg(a, dir) == [kind |-> "Switch", a |-> a, b |-> dir]

\* Switch::switch, lines 743-761: the switch afterwards and what it publishes.
\* The commanded direction goes into the message only; dir keeps its value.
switch_to(sw, dir) ==
    IF sw.dir = dir /\ sw.updated THEN sw
    ELSE [sw EXCEPT !.updated = FALSE]
switch_sends(sw, a, dir) ==
    IF sw.dir = dir /\ sw.updated THEN <<>> ELSE <<SwitchMsg(a, dir)>>

\* Switch::ack_switch_state, lines 765-782
ack_switch_state(sw, dir) ==
    IF dir = sw.dir THEN [sw EXCEPT !.updated = TRUE]
    ELSE switch_to([sw EXCEPT !.updated = FALSE], sw.dir)
ack_sends(sw, a, dir) ==
    IF dir = sw.dir THEN <<>>
    ELSE switch_sends([sw EXCEPT !.updated = FALSE], a, sw.dir)

\* The direction a path from from_index to to_index needs at switch_node,
\* lines 700-709 and 729-734.
path_dir(g, switch_node, from_index, to_index) ==
    IF g.some_node[switch_node] # NoNode
    THEN SwDirFrom(from_index = g.some_node[switch_node]
                   \/ to_index = g.some_node[switch_node])
    ELSE "Curved"

\* Switch::switch_in_correct_state, lines 714-739
switch_in_correct_state(g, sw, switch_node, from_index, to_index) ==
    IF g.kind[switch_node] = "Switch"
    THEN sw.dir = path_dir(g, switch_node, from_index, to_index) /\ sw.updated
    ELSE FALSE

(***************************************************************************)
(* Train routes and the route planner, train.rs and railroad.rs 51-114.    *)
(***************************************************************************)
\* Option<VecDeque<(NodeIndex, bool)>>
NoRoute == [some |-> FALSE, route |-> <<>>]
SomeRoute(r) == [some |-> TRUE, route |-> r]

\* Option<(usize, Vec<NodeIndex>)>
NoPath == [some |-> FALSE, cost |-> 0, path |-> <<>>]
SomePath(c, p) == [some |-> TRUE, cost |-> c, path |-> p]

NoPlan == [road |-> 0, start |-> NoNode, destination |-> NoNode, result |-> NoPath]

\* Option<Vec<NodeIndex>>
NoSegment == [some |-> FALSE, path |-> <<>>]
SomeSegment(p) == [some |-> TRUE, path |-> p]

\* Train::request_route, train.rs 392-423: the part of route r from the node
\* of signal sig up to and including the next signal node (or the end)
request_route(g, r, sig) ==
    IF ~r.some THEN NoSegment
    ELSE LET nodes == [i \in DOMAIN r.route |-> r.route[i][1]]
             at == {i \in DOMAIN nodes :
                       g.kind[nodes[i]] = "Signal" /\ g.addr[nodes[i]] = sig}
         IN  IF at = {} THEN NoSegment
             ELSE LET index == CHOOSE i \in at : \A j \in at : i <= j
                      later == {i \in DOMAIN nodes :
                                   i > index /\ g.kind[nodes[i]] = "Signal"}
                      end == IF later # {}
                             THEN CHOOSE i \in later : \A j \in later : i <= j
                             ELSE Len(nodes)
                  IN  SomeSegment(SubSeq(nodes, index, end))

\* Signal::get_route, signal_checks.rs 176-179, once it has the train's mutex
get_route(train, sig) == request_route(Roads[graph], route[train], sig)

\* Signal::path_free, signal_checks.rs 241-276: the first signal node decides,
\* a sensor before it that is not Free ends the walk with false
RECURSIVE path_free(_, _, _)
path_free(g, path, ignore_signal) ==
    IF path = <<>> THEN TRUE
    ELSE IF g.kind[Head(path)] = "Signal"
         THEN signal[g.addr[Head(path)]].status = "Free" \/ ignore_signal
         ELSE IF g.kind[Head(path)] = "Sensor"
                 /\ sensor[g.addr[Head(path)]].status # "Free"
              THEN FALSE
              ELSE path_free(g, Tail(path), ignore_signal)

\* the signal whose mutex path_free locks on its walk (line 248-252), 0 when
\* the walk ends before it reaches a signal node
RECURSIVE path_locks(_, _)
path_locks(g, path) ==
    IF path = <<>> THEN 0
    ELSE IF g.kind[Head(path)] = "Signal" THEN g.addr[Head(path)]
         ELSE IF g.kind[Head(path)] = "Sensor"
                 /\ sensor[g.addr[Head(path)]].status # "Free"
              THEN 0
              ELSE path_locks(g, Tail(path))

\* Signal::path_behaviour, signal_checks.rs 181-194
path_behaviour(s) ==
    IF signal[s].requesters = <<>> THEN NoRoad
    ELSE LET rt == get_route(Head(signal[s].requesters), s) IN
         IF ~rt.some THEN NoRoad
         ELSE IF ~path_free(Roads[graph], rt.path, sig_type[s] = "Path") THEN NoRoad
         ELSE block_behaviour(block_sensors[s])

\* Signal::intelligent_path_behaviour, signal_checks.rs 196-222
intelligent_path_behaviour(s) ==
    IF signal[s].requesters = <<>> THEN NoRoad
    ELSE LET rt == get_route(Head(signal[s].requesters), s)
             g == Roads[graph]
         IN  IF ~rt.some THEN NoRoad
             ELSE IF ~path_free(g, rt.path, sig_type[s] = "Path") THEN NoRoad
             ELSE LET sensors == SelectSeq(rt.path, LAMBDA n : g.kind[n] = "Sensor")
                  IN  SomeRoad([i \in DOMAIN sensors |-> g.addr[sensors[i]]])

\* Signal::drive, signal_checks.rs 145-174
drive(s) ==
    IF signal[s].status # "Free" THEN NoRoad
    ELSE CASE sig_type[s] = "Block" -> block_behaviour(block_sensors[s])
           [] sig_type[s] = "Path" ->
                  IF path_behaviour(s).some THEN path_behaviour(s)
                  ELSE block_behaviour(block_sensors[s])
           [] sig_type[s] = "IntelligentPath" ->
                  IF intelligent_path_behaviour(s).some THEN intelligent_path_behaviour(s)
                  ELSE block_behaviour(block_sensors[s])

\* What drive waits for on its way: get_route locks the mutex of the head
\* requester's train, which a running method of that train holds, and
\* path_free locks the mutex of the first signal of the route.
drive_locks_free(s) ==
    IF signal[s].status # "Free" \/ sig_type[s] = "Block" \/ signal[s].requesters = <<>>
    THEN TRUE
    ELSE LET t == Head(signal[s].requesters)
             rt == get_route(t, s)
             lk == path_locks(Roads[graph], rt.path)
         IN  /\ call[t].pc = "idle"
             /\ (rt.some /\ lk # 0) => sigLock[lk] = FreeLock

\* Rail::manhattan_distance, mod.rs 596-610
Diagonal == {"Northeast", "Southeast", "Southwest", "Northwest"}
manhattan_distance(rail) ==
    IF rail.dir \in Diagonal THEN (rail.length + 1) * 2 ELSE rail.length + 1

\* usize::abs_diff and Coord::manhattan_distance, mod.rs 396-398
abs_diff(a, b) == IF a >= b THEN a - b ELSE b - a
coord_distance(c1, c2) ==
    abs_diff(c1[1], c2[1]) + abs_diff(c1[2], c2[2]) + abs_diff(c1[3], c2[3])

\* Train::stands, train.rs 142-144 (speed is the speed of train 1; the other
\* trains keep the Stop of Train::new)
stands(t) == IF t = 1 THEN speed.k \in {"Stop", "EmergencyStop"} ELSE TRUE

\* node_cost, railroad.rs 90-114
node_cost(g, node) ==
    CASE g.kind[node] = "Sensor" ->
             IF g.addr[node] \in DOMAIN sensor
             THEN IF sensor[g.addr[node]].train # NoTrain
                     /\ stands(sensor[g.addr[node]].train)
                  THEN 100 ELSE 2
             ELSE 100
      [] g.kind[node] = "Station" -> 500
      [] OTHER -> 2

RECURSIVE SumRails(_)
SumRails(rails) ==
    IF rails = <<>> THEN 0 ELSE manhattan_distance(Head(rails)) + SumRails(Tail(rails))

\* the edge cost closure, railroad.rs 62-65, for the i-th edge of the graph
edge_cost(g, i) == SumRails(g.rails[i]) + node_cost(g, g.edges[i][2])

\* estimate_costs, railroad.rs 78-88
estimate_costs(g, node, dest) == coord_distance(g.pos[node], g.pos[dest])

\* The cost a node has before the search reaches it (no entry in the map).
Unscored == -1

\* PathTracker::reconstruct_path_to
RECURSIVE reconstruct_path_to(_, _)
reconstruct_path_to(came_from, last) ==
    IF came_from[last] = NoNode THEN <<last>>
    ELSE Append(reconstruct_path_to(came_from, came_from[last]), last)

\* petgraph's astar, called at railroad.rs 58-67: the results its main loop
\* can return from the heap visit_next, the maps scores and estimate_scores
\* and the predecessors.  BinaryHeap::pop takes an entry of least estimate;
\* among equal estimates any of them.
RECURSIVE astar(_, _, _, _, _, _)
astar(g, destination, visit_next, scores, estimate_scores, came_from) ==
    IF visit_next = {} THEN {NoPath}
    ELSE LET least == {e \in visit_next : \A o \in visit_next : e[1] <= o[1]}
         IN  UNION {
               LET estimate_score == e[1]
                   node == e[2]
                   rest == visit_next \ {e}
                   out == {i \in DOMAIN g.edges : g.edges[i][1] = node}
                   next_score(i) == scores[node] + edge_cost(g, i)
                   better == {i \in out :
                                 \/ scores[g.edges[i][2]] = Unscored
                                 \/ scores[g.edges[i][2]] > next_score(i)}
                   via(n) == CHOOSE i \in better : g.edges[i][2] = n
                   reached == {g.edges[i][2] : i \in better}
               IN  IF node = destination
                   THEN {SomePath(scores[node], reconstruct_path_to(came_from, node))}
                   ELSE IF /\ estimate_scores[node] # Unscored
                           /\ estimate_scores[node] <= estimate_score
                   THEN astar(g, destination, rest, scores, estimate_scores, came_from)
                   ELSE astar(g, destination,
                              rest \cup {<<next_score(via(n)) + estimate_costs(g, n, destination), n>> :
                                         n \in reached},
                              [n \in RoadNodes(g) |->
                                  IF n \in reached THEN next_score(via(n)) ELSE scores[n]],
                              [estimate_scores EXCEPT ![node] = estimate_score],
                              [n \in RoadNodes(g) |->
                                  IF n \in reached THEN node ELSE came_from[n]])
               : e \in least }

\* Railroad::shortest_path, railroad.rs 51-76: every result the call can give
shortest_path(g, start, destination) ==
    astar(g, destination,
          {<<estimate_costs(g, start, destination), start>>},
          [n \in RoadNodes(g) |-> IF n = start THEN 0 ELSE Unscored],
          [n \in RoadNodes(g) |-> Unscored],
          [n \in RoadNodes(g) |-> NoNode])

(***************************************************************************)
(* Builder, railroad.rs 116-506: a graph under construction.  Its nodes    *)
(* are there already (an add_switch, an add_sensor, an add_signal); an      *)
(* index beyond them is no node of the graph.                              *)
(***************************************************************************)
BuilderKind == <<"Switch", "Sensor", "Signal">>
BuilderNodes == DOMAIN BuilderKind
\* the NodeIndex values handed to connect: the nodes and one stale index
NodeInputs == BuilderNodes \cup {Len(BuilderKind) + 1}
\* the Vec<Rail> values handed to connect
RailInputs == {<<Rail(0, "East")>>}

\* DiGraph edges as a map from (from, to) to the edge weight
NoEdges == <<>>
Ends(g) == DOMAIN g

\* neighbors_directed(node, Incoming / Outgoing).count()
ins(g, node) == Cardinality({e \in Ends(g) : e[2] = node})
out(g, node) == Cardinality({e \in Ends(g) : e[1] = node})

\* switch_max_neighbours, railroad.rs 403-410
switch_max_neighbours(i, o, dir) ==
    IF i < 2 /\ o < 2 THEN TRUE
    ELSE ~((i >= 2 /\ dir = "Incoming") \/ (o >= 2 /\ dir = "Outgoing"))

\* can_add_neighbour asking nothing
can_add_always(g, node, dir) == TRUE

\* Builder::can_add_neighbour, railroad.rs 402-427, for a node of the graph
can_add_neighbour(g, node, dir) ==
    IF BuilderKind[node] = "Switch"
    THEN switch_max_neighbours(ins(g, node), out(g, node), dir)
    ELSE (dir = "Incoming" /\ ins(g, node) < 1) \/ (dir = "Outgoing" /\ out(g, node) < 1)

\* Graph::update_edge: a new edge, or a new weight for the one there is
update_edge(g, from, to, rail) ==
    [e \in Ends(g) \cup {<<from, to>>} |-> IF e = <<from, to>> THEN rail ELSE g[e]]

\* The latest call of connect / connect_bidirectional: the edges it was asked
\* for and whether it returned Some (their handles) or None.
NoConnect == [call |-> "none", edges |-> <<>>, some |-> FALSE]
Refused(fn, es) == [call |-> fn, edges |-> es, some |-> FALSE]
SomeEdges(fn, es) == [call |-> fn, edges |-> es, some |-> TRUE]

\* enum Direction, mod.rs 179-190
Directions ==
    {"North", "Northeast", "East", "Southeast", "South", "Southwest", "West",
     "Northwest", "Up", "Down"}

\* Option<Coord>
NoCoord == [some |-> FALSE, coord |-> Coord(0, 0, 0)]
SomeCoord(c) == [some |-> TRUE, coord |-> c]

\* usize::checked_sub and usize::checked_add as the value or -1 for None; the
\* sums of the coordinates used here stay far below usize::MAX
checked_sub(a, b) == IF a >= b THEN a - b ELSE -1
checked_add(a, b) == a + b

\* Coord::step, mod.rs 357-386
step(self, dir, amount) ==
    LET x == self[1]
        y == self[2]
        z == self[3]
        c == CASE dir = "North" -> Coord(checked_sub(x, amount), y, z)
               [] dir = "Northeast" ->
                      Coord(checked_sub(x, amount), checked_add(y, amount), z)
               [] dir = "East" -> Coord(x, checked_add(y, amount), z)
               [] dir = "Southeast" ->
                      Coord(checked_add(x, amount), checked_add(y, amount), z)
               [] dir = "South" -> Coord(checked_add(x, amount), y, z)
               [] dir = "Southwest" ->
                      Coord(checked_add(x, amount), checked_sub(y, amount), z)
               [] dir = "West" -> Coord(x, checked_sub(y, amount), z)
               [] dir = "Northwest" ->
                      Coord(checked_sub(x, amount), checked_sub(y, amount), z)
               [] dir = "Up" -> Coord(x, y, checked_add(z, amount))
               [] dir = "Down" -> Coord(x, y, checked_sub(z, amount))
    IN  IF \E i \in 1..3 : c[i] = -1 THEN NoCoord ELSE SomeCoord(c)

\* check_diagonal in Coord::is_on_line, mod.rs 295-298
check_diagonal(coord1, coord2) ==
    /\ coord1[3] = coord2[3]
    /\ abs_diff(coord1[1], coord2[1]) = abs_diff(coord1[2], coord2[2])

\* Coord::is_on_line, mod.rs 290-332
is_on_line(self, coord, dir) ==
    LET x == 1
        y == 2
        z == 3
    IN  CASE dir = "North" ->
                 self[y] = coord[y] /\ self[z] = coord[z] /\ self[x] <= coord[x]
          [] dir = "Northeast" ->
                 check_diagonal(self, coord) /\ self[x] <= coord[x] /\ self[y] <= coord[y]
          [] dir = "East" ->
                 self[x] = coord[x] /\ self[z] = coord[z] /\ self[y] <= coord[y]
          [] dir = "Southeast" ->
                 check_diagonal(self, coord) /\ self[x] >= coord[x] /\ self[y] <= coord[y]
          [] dir = "South" ->
                 self[y] = coord[y] /\ self[z] = coord[z] /\ self[x] >= coord[x]
          [] dir = "Southwest" ->
                 check_diagonal(self, coord) /\ self[x] >= coord[x] /\ self[y] >= coord[y]
          [] dir = "West" ->
                 self[x] = coord[x] /\ self[z] = coord[z] /\ self[y] >= coord[y]
          [] dir = "Northwest" ->
                 check_diagonal(self, coord) /\ self[x] <= coord[x] /\ self[y] >= coord[y]
          [] dir = "Up" ->
                 self[x] = coord[x] /\ self[y] = coord[y] /\ self[z] <= coord[z]
          [] dir = "Down" ->
                 self[x] = coord[x] /\ self[y] = coord[y] /\ self[z] >= coord[z]

\* What a call that returns Option<usize> gives: None, Some(value), a panic
\* (the subtraction underflows in a build with overflow checks) or, in a
\* build without them, the wrapped value usize::MAX + 1 - value.
NoDistance == [kind |-> "None", value |-> 0]
SomeDistance(n) == [kind |-> "Some", value |-> n]

\* a - b on usize
usize_sub(a, b, checks) ==
    IF a >= b THEN SomeDistance(a - b)
    ELSE IF checks = "on" THEN [kind |-> "Panic", value |-> 0]
         ELSE [kind |-> "Wrapped", value |-> b - a]

\* the operands of the subtraction of Coord::distance, mod.rs 341-352
distance_operands(self, coord, dir) ==
    CASE dir \in {"North", "Northeast"} -> <<coord[1], self[1]>>
      [] dir = "East" -> <<coord[2], self[2]>>
      [] dir \in {"Southeast", "South", "Southwest", "Northwest"} -> <<self[1], coord[1]>>
      [] dir = "West" -> <<self[2], coord[2]>>
      [] dir = "Up" -> <<coord[3], self[3]>>
      [] dir = "Down" -> <<self[3], coord[3]>>

\* Coord::distance, mod.rs 336-353
distance(self, coord, dir, checks) ==
    IF ~is_on_line(self, coord, dir) THEN NoDistance
    ELSE usize_sub(distance_operands(self, coord, dir)[1],
                   distance_operands(self, coord, dir)[2], checks)

\* the latest call of step or distance, none yet
NoMeasure ==
    [call |-> "none", self |-> Coord(0, 0, 0), dir |-> "North", amount |-> 0,
     coord |-> NoCoord, on_line |-> FALSE, distance |-> NoDistance]

\* The addresses handed to the add_* and remove_* calls of a Builder.
BuilderAddrs == {1, 2}

\* HashMap::insert and HashMap::remove on a map kept as a function
insert(map, k, v) == [x \in DOMAIN map \cup {k} |-> IF x = k THEN v ELSE map[x]]
remove(map, k) == [x \in DOMAIN map \ {k} |-> map[x]]

\* the index list of an address gains the indices nodes, railroad.rs 220-225:
\* pushed to the vector there is, or a new entry made of them
push_nodes(map, adr, nodes) ==
    IF adr \in DOMAIN map THEN [map EXCEPT ![adr] = @ \o nodes]
    ELSE insert(map, adr, nodes)

\* Builder::new, railroad.rs 132-141 (trains carry no node index)
NewBuilder ==
    [road |-> <<>>, edges |-> {}, sensors |-> <<>>, signals |-> <<>>,
     crossings |-> <<>>, switches |-> <<>>]

\* Graph::add_node: the new node gets the next index
add_node(road, kind, adr) == Append(road, [kind |-> kind, addr |-> adr])

\* Graph::remove_node(a): the last node of the graph adopts the index a, the
\* edges of a go and the edges of the last node follow it
remove_node_road(road, a) ==
    IF a \notin DOMAIN road THEN road
    ELSE [i \in 1..(Len(road) - 1) |-> IF i = a THEN road[Len(road)] ELSE road[i]]
remove_node_edges(road, edges, a) ==
    IF a \notin DOMAIN road THEN edges
    ELSE LET moved(n) == IF n = Len(road) THEN a ELSE n
         IN  {<<moved(e[1]), moved(e[2])>> :
                 e \in {d \in edges : d[1] # a /\ d[2] # a}}

\* the latest chain of joins, none yet
NoJoin == [operands |-> <<>>, left |-> "Free", right |-> "Free", reversed |-> "Free"]

\* enum WaitingReasonOperator, train.rs 498-504
WaitingReasonOperator == {"AND", "OR", "XOR", "XNOR"}

\* struct WaitingNode, train.rs 460-465: waiters holds what fulfills() of each
\* WaitingReasons returns, childs what fulfills() of each child node returns
WaitingNode(connector, waiters, childs) ==
    [connector |-> connector, waiters |-> waiters, childs |-> childs]

\* Iterator::fold(false, |res, next| res ^ next.fulfills()), line 488
RECURSIVE fold_xor(_, _)
fold_xor(res, fulfilled) ==
    IF fulfilled = <<>> THEN res
    ELSE fold_xor(res # Head(fulfilled), Tail(fulfilled))

\* Iterator::reduce(|acc, item| acc == item) from the accumulator acc on,
\* lines 489-491
RECURSIVE reduce_eq(_, _)
reduce_eq(acc, fulfilled) ==
    IF fulfilled = <<>> THEN acc
    ELSE reduce_eq(acc = Head(fulfilled), Tail(fulfilled))

\* WaitingNode::check, train.rs 479-494
check(connector, fulfilled) ==
    CASE connector = "AND" -> \A i \in DOMAIN fulfilled : fulfilled[i]
      [] connector = "OR" -> \E i \in DOMAIN fulfilled : fulfilled[i]
      [] connector = "XOR" -> fold_xor(FALSE, fulfilled)
      [] connector = "XNOR" ->
             IF fulfilled = <<>> THEN TRUE
             ELSE reduce_eq(Head(fulfilled), Tail(fulfilled))

\* WaitingNode::fulfills, train.rs 467-477
fulfills(self) ==
    LET result == check(self.connector, self.waiters) IN
    CASE self.connector = "AND" -> result /\ check(self.connector, self.childs)
      [] self.connector = "OR" -> result \/ check(self.connector, self.childs)
      [] self.connector = "XOR" -> result # check(self.connector, self.childs)
      [] self.connector = "XNOR" -> result = check(self.connector, self.childs)

NoFulfilment ==
    [node |-> WaitingNode("AND", <<>>, <<>>), waiters |-> TRUE, childs |-> TRUE,
     result |-> TRUE]

(***************************************************************************)
(* Initial state: the railroad right after Builder::build().               *)
(***************************************************************************)
Built ==
    /\ signal = [s \in SignalAddrs |-> NewSignal]
    /\ \E o \in BuildOrders :
           calculation_group = GroupsAfter(o, [s \in SignalAddrs |-> s])
    /\ sigLock = [s \in SignalAddrs |-> FreeLock]
    /\ groupLock = [s \in SignalAddrs |-> FreeLock]
    /\ sensor = [a \in SensorAddrs |-> NewSensor]
    /\ timer = [a \in SensorAddrs |-> [spawned |-> 0, waiting |-> 0]]
    /\ task = [k \in Tasks |-> IdleTask]
    /\ call = [t \in Trains |-> IdleCall]
    /\ subscription = [t \in Trains |-> {}]
    /\ returned = NoReturn
    /\ decided = NoDecision
    /\ last_level = [a \in SensorAddrs |-> "Free"]
    /\ sent = <<>>
    /\ speed = Stop
    /\ speed_updater = FALSE
    /\ set_speed = IdleSetSpeed
    /\ ramp = NoRamp
    /\ overflow_checks = "open"
    /\ last_msg = Stop
    /\ switch = [a \in SwitchAddrs |-> NewSwitch]
    /\ graph = 1
    /\ train_position = [t \in Trains |-> NoNode]
    /\ route = [t \in Trains |-> NoRoute]
    /\ planned = NoPlan
    /\ builder = NoEdges
    /\ connected = NoConnect
    /\ joined = NoJoin
    /\ fulfilment = NoFulfilment
    /\ building = NewBuilder
    /\ measured = NoMeasure

\* every signal added as a Block signal
Init == Built /\ sig_type = [s \in SignalAddrs |-> "Block"]

\* signal 2 added as a Path or an IntelligentPath signal
PathInit ==
    /\ Built
    /\ \E ty \in SignalType \ {"Block"} :
           sig_type = [s \in SignalAddrs |-> IF s = 2 THEN ty ELSE "Block"]


(***************************************************************************)
(* Train::reset_position, train.rs 263-296, the caller of request_block.   *)
(***************************************************************************)
\* Nodes a train can be put on.
Positions == {n \in Nodes : NodeKind[n] \in {"Sensor", "Station"}}

FirstUnused == IF \E k \in Tasks : task[k].pc = "unused"
               THEN CHOOSE k \in Tasks : task[k].pc = "unused" /\
                                         \A j \in Tasks : task[j].pc = "unused" => k <= j
               ELSE 0

\* Signal::request_block up to its await: push_back, then spawn
\* get_signal_and_next and wait for its JoinHandle.
request_block(sg, train) == [sg EXCEPT !.requesters = Append(@, train)]

\* Lines 273-280: subscribe, look the input signal up, lock it and call
\* request_block, which pushes, spawns the grant task and awaits it while the
\* caller still holds the signal's guard.  Without an input signal the call
\* returns false.
ResetPosition(t, position) ==
    /\ call[t].pc = "idle"
    /\ sent' = <<>>
    /\ UNCHANGED <<spVars, bdVars, rtVars, last_level>>
    /\ decided' = NoDecision
    /\ UNCHANGED <<calculation_group, groupLock, sensor, timer>>
    /\ LET n == get_signal_of_block(position) IN
       IF n = NoNode
       THEN /\ returned' = Returned(t, FALSE)
            /\ UNCHANGED <<signal, sigLock, task, call, subscription>>
       ELSE LET s == NodeAddr[n]
                k == FirstUnused
            IN  /\ sigLock[s] = FreeLock
                /\ Len(signal[s].requesters) < MaxQueue
                /\ k # 0
                /\ subscription' = [subscription EXCEPT ![t] = {}]
                /\ sigLock' = [sigLock EXCEPT ![s] = TrainHolder(t)]
                /\ signal' = [signal EXCEPT ![s] = request_block(@, t)]
                /\ task' = [task EXCEPT ![k] =
                               [pc |-> "lock", sig |-> s, kind |-> "spawn", owner |-> t]]
                /\ call' = [call EXCEPT ![t] = [pc |-> "join", sig |-> s]]
                /\ returned' = NoReturn

\* The caller at its await points.  Line 1098 resumes once the spawned task
\* has finished; lines 284-292 then wait for TrainGranted(signal, self) and
\* return true.  A caller whose future is dropped while it is pending gives up
\* its guard and its JoinHandle (the task stays alive, detached).
Resume(t) ==
    /\ call[t].pc \in {"join", "recv"}
    /\ sent' = <<>>
    /\ UNCHANGED <<spVars, bdVars, rtVars, last_level>>
    /\ decided' = NoDecision
    /\ UNCHANGED <<signal, calculation_group, groupLock, sensor, timer, subscription>>
    /\ LET s == call[t].sig IN
       IF call[t].pc = "join" /\ \E k \in Tasks : task[k].owner = t /\ task[k].pc = "done"
       THEN /\ call' = [call EXCEPT ![t].pc = "recv"]
            /\ sigLock' = [sigLock EXCEPT ![s] = FreeLock]
            /\ task' = [k \in Tasks |-> IF task[k].owner = t THEN IdleTask ELSE task[k]]
            /\ returned' = NoReturn
       ELSE IF call[t].pc = "recv" /\ TrainGranted(s, t) \in subscription[t]
       THEN /\ call' = [call EXCEPT ![t] = IdleCall]
            /\ returned' = Returned(t, TRUE)
            /\ UNCHANGED <<sigLock, task>>
       ELSE /\ call' = [call EXCEPT ![t] = IdleCall]
            /\ returned' = NoReturn
            /\ sigLock' = [sigLock EXCEPT ![s] =
                              IF @ = TrainHolder(t) THEN FreeLock ELSE @]
            /\ task' = [k \in Tasks |->
                           IF task[k].owner = t
                           THEN IF task[k].pc = "done" THEN IdleTask
                                ELSE [task[k] EXCEPT !.owner = NoTrain]
                           ELSE task[k]]

(***************************************************************************)
(* Signal::update and the runs of Signal::next, mod.rs 1101-1138, 1211.    *)
(***************************************************************************)
\* A run that has returned: a detached task is gone, a task whose JoinHandle
\* is still held stays until it is joined.
Finished(k) ==
    [task EXCEPT ![k] = IF @.owner = NoTrain THEN IdleTask
                        ELSE [@ EXCEPT !.pc = "done"]]

\* Signal::update called under the signal's lock: with no granted train it
\* runs next, which goes on to the group mutex only when a requester waits
\* (in the other cases the call returns with nothing changed).
Update(s) ==
    /\ sigLock[s] = FreeLock
    /\ signal[s].trains = <<>>
    /\ signal[s].requesters # <<>>
    /\ FirstUnused # 0
    /\ task' = [task EXCEPT ![FirstUnused] =
                   [pc |-> "group", sig |-> s, kind |-> "update", owner |-> NoTrain]]
    /\ sigLock' = [sigLock EXCEPT ![s] = TaskHolder(FirstUnused)]
    /\ sent' = <<>>
    /\ UNCHANGED <<spVars, bdVars, rtVars, last_level>>
    /\ decided' = NoDecision
    /\ returned' = NoReturn
    /\ UNCHANGED <<signal, calculation_group, groupLock, sensor, timer, call,
                   subscription>>

\* get_signal_and_next: the spawned task locks the signal, then next line 1117
TaskLock(k) ==
    /\ task[k].pc = "lock"
    /\ sigLock[task[k].sig] = FreeLock
    /\ IF signal[task[k].sig].requesters = <<>>
       THEN /\ task' = Finished(k)
            /\ decided' = Decision(task[k].sig, "empty")
            /\ UNCHANGED sigLock
       ELSE /\ task' = [task EXCEPT ![k].pc = "group"]
            /\ sigLock' = [sigLock EXCEPT ![task[k].sig] = TaskHolder(k)]
            /\ decided' = NoDecision
    /\ sent' = <<>>
    /\ UNCHANGED <<spVars, bdVars, rtVars, last_level>>
    /\ returned' = NoReturn
    /\ UNCHANGED <<signal, calculation_group, groupLock, sensor, timer, call,
                   subscription>>

\* next lines 1121-1122: lock the calculation group
TaskGroup(k) ==
    /\ task[k].pc = "group"
    /\ groupLock[calculation_group[task[k].sig]] = FreeLock
    /\ groupLock' = [groupLock EXCEPT ![calculation_group[task[k].sig]] = TaskHolder(k)]
    /\ task' = [task EXCEPT ![k].pc = "drive"]
    /\ sent' = <<>>
    /\ UNCHANGED <<spVars, bdVars, rtVars, last_level>>
    /\ decided' = NoDecision
    /\ returned' = NoReturn
    /\ UNCHANGED <<signal, calculation_group, sigLock, sensor, timer, call,
                   subscription>>

\* next lines 1123-1138: the free-road check and the grant, then both guards
\* are dropped.  (A signal of this graph has at most one block sensor, so
\* reading the block's sensors is one step.)
TaskDrive(k) ==
    /\ task[k].pc = "drive"
    /\ drive_locks_free(task[k].sig)
    /\ LET s == task[k].sig
           road == drive(s)
           train == next_train(signal[s].requesters, road)
       IN  /\ IF train = NoTrain
              THEN /\ UNCHANGED <<signal, sensor>>
                   /\ decided' = Decision(s, IF road.some THEN "skipped" ELSE "blocked")
              ELSE /\ signal' = [signal EXCEPT ![s].requesters = Tail(@),
                                               ![s].status = "Reserved",
                                               ![s].trains = Append(@, train)]
                   /\ sensor' = [a \in SensorAddrs |->
                                    IF a \in Range(road.road)
                                    THEN block(sensor[a], train) ELSE sensor[a]]
                   /\ decided' = Decision(s, "granted")
           /\ groupLock' = [groupLock EXCEPT ![calculation_group[s]] = FreeLock]
           /\ sigLock' = [sigLock EXCEPT ![s] = FreeLock]
    /\ task' = Finished(k)
    /\ sent' = <<>>
    /\ UNCHANGED <<spVars, bdVars, rtVars, last_level>>
    /\ returned' = NoReturn
    /\ UNCHANGED <<calculation_group, timer, call, subscription>>

(***************************************************************************)
(* Sensor events, mod.rs 895-1004.                                         *)
(***************************************************************************)
\* Sensor::handle_sensor_level(Occupied): publish TrainOnSensor for the
\* holder, notify_waiters (waiting grace timers end), store the level.
LevelOccupied(a) ==
    /\ UNCHANGED <<spVars, bdVars, rtVars>>
    /\ last_level' = [last_level EXCEPT ![a] = "Occupied"]
    /\ sent' = IF sensor[a].train # NoTrain
               THEN <<TrainOnSensor(a, sensor[a].train)>> ELSE <<>>
    /\ timer' = [timer EXCEPT ![a].waiting = 0]
    /\ sensor' = [sensor EXCEPT ![a].level = "Occupied"]
    /\ decided' = NoDecision
    /\ returned' = NoReturn
    /\ UNCHANGED <<signal, calculation_group, sigLock, groupLock, task, call,
                   subscription>>

\* Sensor::handle_sensor_level(Free) = Sensor::sensor_free: notify_waiters,
\* then with a holder status Reserved and a new grace timer, else status Free.
LevelFree(a) ==
    /\ IF sensor[a].train # NoTrain
       THEN /\ timer[a].spawned < MaxTimers
            /\ sensor' = [sensor EXCEPT ![a].status = "Reserved"]
            /\ timer' = [timer EXCEPT ![a] = [spawned |-> @.spawned + 1, waiting |-> 0]]
       ELSE /\ sensor' = [sensor EXCEPT ![a].status = "Free"]
            /\ timer' = [timer EXCEPT ![a].waiting = 0]
    /\ sent' = <<>>
    /\ UNCHANGED <<spVars, bdVars, rtVars>>
    /\ last_level' = [last_level EXCEPT ![a] = "Free"]
    /\ decided' = NoDecision
    /\ returned' = NoReturn
    /\ UNCHANGED <<signal, calculation_group, sigLock, groupLock, task, call,
                   subscription>>

\* wait_and_run reaches its select!: from now on a notify_waiters ends it
TimerPoll(a) ==
    /\ timer[a].spawned > 0
    /\ timer' = [timer EXCEPT ![a] = [spawned |-> @.spawned - 1, waiting |-> @.waiting + 1]]
    /\ sent' = <<>>
    /\ UNCHANGED <<spVars, bdVars, rtVars, last_level>>
    /\ decided' = NoDecision
    /\ returned' = NoReturn
    /\ UNCHANGED <<signal, calculation_group, sigLock, groupLock, sensor, task,
                   call, subscription>>

\* the sleep of wait_and_run elapses: Sensor::free_sensor runs
TimerFire(a) ==
    /\ timer[a].waiting > 0
    /\ sensor' = [sensor EXCEPT ![a] = free_sensor(@)]
    /\ timer' = [timer EXCEPT ![a].waiting =
                    IF sensor[a].status = "Occupied" THEN @ - 1 ELSE 0]
    /\ sent' = <<>>
    /\ UNCHANGED <<spVars, bdVars, rtVars, last_level>>
    /\ decided' = NoDecision
    /\ returned' = NoReturn
    /\ UNCHANGED <<signal, calculation_group, sigLock, groupLock, task, call,
                   subscription>>

\* Sensor::block called for a train put on the sensor
BlockSensor(a, t) ==
    /\ sensor' = [sensor EXCEPT ![a] = block(@, t)]
    /\ sensor' # sensor
    /\ sent' = <<>>
    /\ UNCHANGED <<spVars, bdVars, rtVars, last_level>>
    /\ decided' = NoDecision
    /\ returned' = NoReturn
    /\ UNCHANGED <<signal, calculation_group, sigLock, groupLock, timer, task,
                   call, subscription>>

\* Sensor::free called for a train taken off the sensor
FreeSensor(a, t) ==
    /\ sensor' = [sensor EXCEPT ![a] = free(@, t)]
    /\ sensor' # sensor
    /\ sent' = <<>>
    /\ UNCHANGED <<spVars, bdVars, rtVars, last_level>>
    /\ decided' = NoDecision
    /\ returned' = NoReturn
    /\ UNCHANGED <<signal, calculation_group, sigLock, groupLock, timer, task,
                   call, subscription>>

\* The sensors some signal reads in its free-road check.  Only these receive
\* events here: no signal reads or writes the state of another sensor.
GuardedSensors == UNION {Range(block_sensors[s]) : s \in SignalAddrs}

Next ==
    \/ \E t \in Trains, n \in Positions : ResetPosition(t, n)
    \/ \E t \in Trains : Resume(t)
    \/ \E s \in SignalAddrs : Update(s)
    \/ \E k \in Tasks : TaskLock(k)
    \/ \E k \in Tasks : TaskGroup(k)
    \/ \E k \in Tasks : TaskDrive(k)
    \/ \E a \in GuardedSensors : LevelOccupied(a)
    \/ \E a \in GuardedSensors : LevelFree(a)
    \/ \E a \in GuardedSensors : TimerPoll(a)
    \/ \E a \in GuardedSensors : TimerFire(a)
    \/ \E a \in GuardedSensors, t \in Trains : BlockSensor(a, t)
    \/ \E a \in GuardedSensors, t \in Trains : FreeSensor(a, t)

Spec == Init /\ [][Next]_vars

\* The same steps with the scheduler's promises: a spawned task, a timer and
\* a caller that can go on do so, and update keeps being called while it has
\* something to do.  A caller may still give up while it waits.
Joined(t) ==
    /\ call[t].pc = "join"
    /\ \E k \in Tasks : task[k].owner = t /\ task[k].pc = "done"
    /\ Resume(t)
Received(t) ==
    /\ call[t].pc = "recv"
    /\ \E s \in SignalAddrs : call[t].sig = s /\ TrainGranted(s, t) \in subscription[t]
    /\ Resume(t)

FairSpec ==
    /\ Spec
    /\ \A k \in Tasks : WF_vars(TaskLock(k)) /\ WF_vars(TaskGroup(k)) /\ WF_vars(TaskDrive(k))
    /\ \A s \in SignalAddrs : WF_vars(Update(s))
    /\ \A t \in Trains : WF_vars(Joined(t)) /\ WF_vars(Received(t))
    /\ \A a \in GuardedSensors : WF_vars(TimerPoll(a)) /\ WF_vars(TimerFire(a))

(***************************************************************************)
(* The interlocking properties.                                            *)
(***************************************************************************)
\* The nodes a train passing node n can reach before the next signal.
RECURSIVE Ahead(_, _)
Ahead(frontier, seen) ==
    IF frontier = {} THEN seen
    ELSE LET grow == UNION {Range(OutNbrs(n)) : n \in {m \in frontier : NodeKind[m] # "Signal"}}
             new == grow \ seen
         IN  Ahead(new, seen \cup new)
\* The sensors of the block signal s leads into.
BlockOf(s) ==
    LET first == Range(OutNbrs(representing_node(s)))
    IN  {NodeAddr[n] : n \in {m \in Ahead(first, first) : NodeKind[m] = "Sensor"}}
\* Two signals are peers when they lead into a common block.
Peers(s1, s2) == s1 # s2 /\ BlockOf(s1) \cap BlockOf(s2) # {}
BlockFree(s) == \A a \in BlockOf(s) : sensor[a].status = "Free"

C4_GrantStep ==
    [][\A k \in Tasks :
          LET s == task[k].sig IN
          (/\ task[k].pc = "drive"
           /\ task'[k].pc # "drive"
           /\ signal[s].requesters # <<>>
           /\ signal[s].status = "Free"
           /\ drive(s).some)
          => LET t == Head(signal[s].requesters) IN
             /\ signal'[s].requesters = Tail(signal[s].requesters)
             /\ t \in Range(signal'[s].trains)
             /\ signal'[s].status = "Reserved"
             /\ \A a \in Range(drive(s).road) : sensor'[a].train = t]_vars

\* C5: a signal whose block is free does not keep a requester waiting for
\* ever: again and again its queue is empty or its block is not free.
C5_QueueServed ==
    \A s \in SignalAddrs : []<>(signal[s].requesters = <<>> \/ ~BlockFree(s))

\* C6: request_block for a train that is already queued or already granted
\* leaves the queue and the granted trains as they are.
C6_RequestIdempotent ==
    [][\A t \in Trains : \A s \in SignalAddrs :
          (/\ call[t].pc = "idle"
           /\ call'[t] = [pc |-> "join", sig |-> s]
           /\ t \in Range(signal[s].requesters) \cup Range(signal[s].trains))
          => /\ signal'[s].requesters = signal[s].requesters
             /\ signal'[s].trains = signal[s].trains]_vars

\* C7: reset_position of a train that is the only requester of its input
\* signal returns true in the end, unless the block stops being free or
\* another train queues up.
C7_ResetReturnsTrue ==
    \A t \in Trains : \A s \in SignalAddrs :
        (call[t] = [pc |-> "join", sig |-> s] /\ signal[s].requesters = <<t>> /\ BlockFree(s))
        ~> (\/ returned = Returned(t, TRUE)
            \/ signal[s].requesters # <<t>>
            \/ ~BlockFree(s))

(***************************************************************************)
(* Train::set_speed and Train::speed_accelerator, train.rs 65-140.         *)
(***************************************************************************)
\* Notify::notify_waiters wakes the tasks waiting in notified() and stores no
\* permit: a ramp that is not at its select! misses it.
notify_waiters(r) == IF r.pc = "select" THEN [r EXCEPT !.notified = TRUE] ELSE r

\* set_speed lines 84-96 run with the start speed actual_speed: an emergency
\* stop is published at once, any other target gets a new ramp task.
Launch(actual_speed, target) ==
    IF target = EmergencyStop
    THEN /\ sent' = <<TrainSpeed(target)>>
         /\ last_msg' = target
         /\ ramp' = NoRamp
         /\ speed_updater' = FALSE
    ELSE /\ sent' = <<>>
         /\ last_msg' = last_msg
         /\ ramp' = [pc |-> "spawned", actual_speed |-> actual_speed,
                     speed |-> target, start |-> actual_speed, notified |-> FALSE]
         /\ speed_updater' = TRUE

\* set_speed lines 75-82 and, with no JoinHandle stored, the rest of the call
SetSpeed(target) ==
    /\ set_speed.pc = "idle"
    /\ speed' = target
    /\ IF speed_updater
       THEN /\ ramp' = notify_waiters(ramp)
            /\ speed_updater' = FALSE
            /\ set_speed' = [pc |-> "join", speed |-> target]
            /\ sent' = <<>>
            /\ UNCHANGED last_msg
       ELSE /\ Launch(speed, target)
            /\ UNCHANGED set_speed
    /\ UNCHANGED <<ilVars, bdVars, rtVars, overflow_checks>>

\* line 81: the ramp task has ended; unwrap panics when the task panicked
SetSpeedJoined ==
    /\ set_speed.pc = "join"
    /\ ramp.pc \in {"finished", "panicked"}
    /\ set_speed' = IdleSetSpeed
    /\ IF ramp.pc = "panicked"
       THEN /\ ramp' = NoRamp
            /\ sent' = <<>>
            /\ UNCHANGED <<speed_updater, last_msg>>
       ELSE Launch(ramp.actual_speed, set_speed.speed)
    /\ UNCHANGED <<ilVars, bdVars, rtVars, speed, overflow_checks>>

\* the spawned task is polled for the first time and waits in select!
RampPoll ==
    /\ ramp.pc = "spawned"
    /\ ramp' = [ramp EXCEPT !.pc = "select"]
    /\ sent' = <<>>
    /\ UNCHANGED <<ilVars, bdVars, rtVars, speed, speed_updater, set_speed, overflow_checks, last_msg>>

\* select! takes the notified() branch, lines 114-116
RampInterrupt ==
    /\ ramp.pc = "select"
    /\ ramp.notified
    /\ ramp' = [ramp EXCEPT !.pc = "finished"]
    /\ sent' = <<>>
    /\ UNCHANGED <<ilVars, bdVars, rtVars, speed, speed_updater, set_speed, overflow_checks, last_msg>>

\* select! takes the sleep branch, lines 117-119; the Notified future is
\* dropped with the select!
RampSleep ==
    /\ ramp.pc = "select"
    /\ ramp' = [ramp EXCEPT !.pc = "body", !.notified = FALSE]
    /\ sent' = <<>>
    /\ UNCHANGED <<ilVars, bdVars, rtVars, speed, speed_updater, set_speed, overflow_checks, last_msg>>

\* one speed step of the ramp, lines 122-132: the new speed and whether the
\* loop breaks
accelerate(actual_speed, target) ==
    IF Less(actual_speed, target)
    THEN LET a == Add(actual_speed, Drive(default_acceleration))
         IN  [actual_speed |-> a, break |-> Greater(a, target)]
    ELSE LET a == Sub(actual_speed, Drive(default_acceleration))
         IN  [actual_speed |-> a, break |-> Less(a, target)]

\* lines 122-139: one pass of the loop body up to the next select!, or the
\* break with the closing message
RampStep ==
    /\ ramp.pc = "body"
    /\ IF /\ Less(ramp.actual_speed, ramp.speed)
          /\ Overflows(ramp.actual_speed, Drive(default_acceleration))
       THEN overflow_checks' \in IF overflow_checks = "open" THEN {"on", "off"}
                                 ELSE {overflow_checks}
       ELSE UNCHANGED overflow_checks
    /\ IF overflow_checks' = "on"
       THEN /\ ramp' = [ramp EXCEPT !.pc = "panicked"]
            /\ sent' = <<>>
            /\ UNCHANGED last_msg
       ELSE LET r == accelerate(ramp.actual_speed, ramp.speed) IN
            IF r.break
            THEN /\ ramp' = [ramp EXCEPT !.pc = "finished", !.actual_speed = ramp.speed]
                 /\ sent' = <<TrainSpeed(ramp.speed)>>
                 /\ last_msg' = ramp.speed
            ELSE /\ ramp' = [ramp EXCEPT !.pc = "select", !.actual_speed = r.actual_speed]
                 /\ sent' = <<TrainSpeed(r.actual_speed)>>
                 /\ last_msg' = r.actual_speed
    /\ UNCHANGED <<ilVars, bdVars, rtVars, speed, speed_updater, set_speed>>

SpeedNext ==
    \/ \E target \in SpeedInputs : SetSpeed(target)
    \/ SetSpeedJoined
    \/ RampPoll
    \/ RampInterrupt
    \/ RampSleep
    \/ RampStep

SpeedSpec == Init /\ [][SpeedNext]_vars

(***************************************************************************)
(* The speed properties.                                                   *)
(***************************************************************************)
\* C8: once set_speed(EmergencyStop) has started, and until the next call of
\* set_speed, every TrainSpeed message published carries EmergencyStop.
C8_EmergencyStopFirst ==
    [][speed' = EmergencyStop =>
          \A i \in DOMAIN sent' :
              sent'[i].kind = "TrainSpeed" => sent'[i].b = EmergencyStop]_vars

\* C9: whenever no call of set_speed is running and no ramp is live, the last
\* TrainSpeed message carries the target of the most recent call.
C9_LastIsTarget ==
    (set_speed.pc = "idle" /\ ramp.pc \in {"none", "finished", "panicked"})
    => last_msg = speed

\* C10: every value a ramp publishes while no newer call of set_speed has
\* started lies between its start speed and its target in the speed order,
\* and the value published when it ends is the target.
C10_RampWithinRange ==
    [][(ramp.pc = "body" /\ sent' # <<>> /\ set_speed.pc = "idle" /\ speed = ramp.speed)
       => LET v == sent'[1].b
              lo == IF Less(ramp.start, ramp.speed) THEN ramp.start ELSE ramp.speed
              hi == IF Less(ramp.start, ramp.speed) THEN ramp.speed ELSE ramp.start
          IN  /\ ~Less(v, lo)
              /\ ~Greater(v, hi)
              /\ ramp'.pc = "finished" => v = ramp.speed]_vars

\* the difference of two speeds clamped at Stop
ClampedDifference(self, rhs) ==
    IF rhs.k # "Drive" \/ self.k # "Drive" THEN self
    ELSE IF self.v >= rhs.v THEN Drive(self.v - rhs.v) ELSE Stop

\* C36: a ramp that steps down from a speed by the default acceleration goes
\* on with the clamped difference: Drive(a) - Drive(b) is Drive(a - b) when
\* a >= b and Stop when a < b, and Stop and EmergencyStop stay as they are.
C36_ClampedSubtraction ==
    [][(/\ ramp.pc = "body"
        /\ ~Less(ramp.actual_speed, ramp.speed)
        /\ ramp'.pc = "select")
       => ramp'.actual_speed
              = ClampedDifference(ramp.actual_speed, Drive(default_acceleration))]_vars

\* the sum of two speeds saturating at the largest u8
SaturatingSum(self, rhs) ==
    IF rhs.k # "Drive" THEN self
    ELSE IF self.k # "Drive" THEN Drive(rhs.v)
    ELSE Drive(IF self.v + rhs.v < SpeedModulus THEN self.v + rhs.v
               ELSE SpeedModulus - 1)

\* C37: a ramp that steps up from a speed by the default acceleration never
\* panics on the addition and, when it goes on, goes on with the saturated
\* sum Drive(min(a + b, 255)).
C37_SaturatingAddition ==
    [][(ramp.pc = "body" /\ Less(ramp.actual_speed, ramp.speed))
       => /\ ramp'.pc # "panicked"
          /\ ramp'.pc = "select"
             => ramp'.actual_speed
                    = SaturatingSum(ramp.actual_speed, Drive(default_acceleration))]_vars

(***************************************************************************)
(* The sensors on their own: every call and event of a Sensor, applied to  *)
(* every sensor in any order.                                              *)
(***************************************************************************)
\* Sensor::block called by any train, with the bool it returns
BlockCall(a, t) ==
    /\ sensor' = [sensor EXCEPT ![a] = block(@, t)]
    /\ returned' = Returned(t, block_returns(sensor[a], t))
    /\ sent' = <<>>
    /\ UNCHANGED <<spVars, bdVars, rtVars, last_level>>
    /\ decided' = NoDecision
    /\ UNCHANGED <<signal, calculation_group, sigLock, groupLock, timer, task,
                   call, subscription>>

SensorNext ==
    \/ \E a \in SensorAddrs : LevelOccupied(a)
    \/ \E a \in SensorAddrs : LevelFree(a)
    \/ \E a \in SensorAddrs : TimerPoll(a)
    \/ \E a \in SensorAddrs : TimerFire(a)
    \/ \E a \in SensorAddrs, t \in Trains : BlockCall(a, t)
    \/ \E a \in SensorAddrs, t \in Trains : FreeSensor(a, t)

SensorSpec == Init /\ [][SensorNext]_vars

\* C12: the level event Occupied on a sensor that is Reserved for train t
\* makes its status Occupied, keeps t and publishes TrainOnSensor(sensor, t).
C12_Occupation ==
    [][\A a \in SensorAddrs : \A t \in Trains :
          (LevelOccupied(a) /\ sensor[a].status = "Reserved" /\ sensor[a].train = t)
          => /\ sensor'[a].status = "Occupied"
             /\ sensor'[a].train = t
             /\ sent' = <<TrainOnSensor(a, t)>>]_vars

\* C13: block for another train than the holder of a Reserved or Occupied
\* sensor returns false and changes nothing; block by the holder returns true
\* and changes nothing; block on a Free sensor returns true and leaves the
\* sensor Reserved for the caller.
C13_BlockRefusal ==
    [][\A a \in SensorAddrs : \A t \in Trains :
          BlockCall(a, t) =>
          LET sn == sensor[a] IN
          /\ (sn.status \in {"Reserved", "Occupied"} /\ sn.train \notin {NoTrain, t})
             => (returned' = Returned(t, FALSE) /\ sensor'[a] = sn)
          /\ (sn.train = t)
             => (returned' = Returned(t, TRUE) /\ sensor'[a] = sn)
          /\ (sn.status = "Free")
             => /\ returned' = Returned(t, TRUE)
                /\ sensor'[a].status = "Reserved"
                /\ sensor'[a].train = t]_vars

\* C13 case: a train has just been refused a sensor that another train holds.
C13_Refused ==
    \E a \in SensorAddrs : \E t \in Trains :
        /\ returned = Returned(t, FALSE)
        /\ sensor[a].train \notin {NoTrain, t}
        /\ sensor[a].status \in {"Reserved", "Occupied"}

\* C14: a sensor has a train exactly when its status is Reserved or Occupied.
C14_TrainIffHeld ==
    \A a \in SensorAddrs :
        (sensor[a].train # NoTrain) <=> (sensor[a].status \in {"Reserved", "Occupied"})

\* C15: the grace timer firing on a sensor that its train has left (status
\* Reserved after the level event Free) leaves the sensor as it was when
\* fresh: status Free, level Free, no train.
C15_RoundTrip ==
    [][\A a \in SensorAddrs :
          (/\ TimerFire(a)
           /\ sensor[a].train # NoTrain
           /\ sensor[a].status = "Reserved"
           /\ last_level[a] = "Free")
          => sensor'[a] = NewSensor]_vars

\* C16: on a sensor that a train holds and has entered again (the level event
\* received last is Occupied) no grace timer takes effect: the status is
\* Occupied and a timer that fires leaves status and train as they are.
C16_TimerCancelled ==
    [][\A a \in SensorAddrs :
          (/\ TimerFire(a)
           /\ sensor[a].train # NoTrain
           /\ last_level[a] = "Occupied")
          => /\ sensor[a].status = "Occupied"
             /\ sensor'[a] = sensor[a]]_vars

\* The ramp with the scheduler's promises: the spawned task is polled, its
\* sleep elapses, its loop body runs, and a caller waiting for it goes on.
FairSpeedSpec ==
    /\ SpeedSpec
    /\ WF_vars(RampPoll) /\ WF_vars(RampSleep) /\ WF_vars(RampStep)
    /\ WF_vars(SetSpeedJoined)

\* C11: a ramp task that no later call of set_speed interrupts ends after
\* finitely many steps, having returned its target.
C11_RampTerminates ==
    (ramp.pc = "spawned")
    ~> (\/ ramp.pc = "finished" /\ ramp.actual_speed = ramp.speed
        \/ set_speed.pc = "join")

(***************************************************************************)
(* Route setting: switches, train routes and the route planner.            *)
(***************************************************************************)
\* Builder::from_railroad ... build(), railroad.rs 143-185 and 464-506: the
\* railroad is set up anew on another graph before any train is put on it.
Build(r) ==
    /\ r # graph
    /\ \A t \in Trains : train_position[t] = NoNode
    /\ graph' = r
    /\ sent' = <<>>
    /\ returned' = NoReturn
    /\ decided' = NoDecision
    /\ UNCHANGED <<signal, calculation_group, sigLock, groupLock, sensor, timer,
                   task, call, subscription, last_level>>
    /\ UNCHANGED <<spVars, bdVars, switch, train_position, route, planned>>

\* Switch::switch called on the switch of address a
SwitchCall(a, dir) ==
    /\ switch' = [switch EXCEPT ![a] = switch_to(@, dir)]
    /\ sent' = switch_sends(switch[a], a, dir)
    /\ returned' = NoReturn
    /\ decided' = NoDecision
    /\ UNCHANGED <<signal, calculation_group, sigLock, groupLock, sensor, timer,
                   task, call, subscription, last_level>>
    /\ UNCHANGED <<spVars, bdVars, graph, train_position, route, planned>>

\* Switch::ack_switch_state called on the switch of address a
AckSwitchState(a, dir) ==
    /\ switch' = [switch EXCEPT ![a] = ack_switch_state(@, dir)]
    /\ sent' = ack_sends(switch[a], a, dir)
    /\ returned' = NoReturn
    /\ decided' = NoDecision
    /\ UNCHANGED <<signal, calculation_group, sigLock, groupLock, sensor, timer,
                   task, call, subscription, last_level>>
    /\ UNCHANGED <<spVars, bdVars, graph, train_position, route, planned>>

\* Switch::request_path, lines 685-711, called on the switch of address a: a
\* node that is no switch leaves everything as it is.
RequestPath(a, switch_node, from_index, to_index) ==
    /\ LET g == Roads[graph]
           dir == path_dir(g, switch_node, from_index, to_index)
       IN  IF g.kind[switch_node] = "Switch"
           THEN /\ switch' = [switch EXCEPT ![a] = switch_to(@, dir)]
                /\ sent' = switch_sends(switch[a], a, dir)
           ELSE /\ UNCHANGED switch
                /\ sent' = <<>>
    /\ returned' = NoReturn
    /\ decided' = NoDecision
    /\ UNCHANGED <<signal, calculation_group, sigLock, groupLock, sensor, timer,
                   task, call, subscription, last_level>>
    /\ UNCHANGED <<spVars, bdVars, graph, train_position, route, planned>>

\* Train::new, train.rs 50-60, as create_train calls it: a train is put on a
\* sensor or a station, without a route.
NewTrain(t, n) ==
    /\ train_position[t] = NoNode
    /\ is_driveable(Roads[graph], n)
    /\ train_position' = [train_position EXCEPT ![t] = n]
    /\ route' = [route EXCEPT ![t] = NoRoute]
    /\ sent' = <<>>
    /\ returned' = NoReturn
    /\ decided' = NoDecision
    /\ UNCHANGED <<signal, calculation_group, sigLock, groupLock, sensor, timer,
                   task, call, subscription, last_level>>
    /\ UNCHANGED <<spVars, bdVars, switch, graph, planned>>

\* trigger_drive_to keeping the whole path
keep_all(g, path) == Len(path)

\* train.rs 366-372: how many nodes of the path the route keeps, up to and
\* including the last driveable one (the whole path when it has none).
keep(g, path) ==
    LET driveable == {i \in DOMAIN path : is_driveable(g, path[i])}
    IN  IF driveable = {} THEN Len(path)
        ELSE CHOOSE i \in driveable : \A j \in driveable : j <= i

\* Train::trigger_drive_to, train.rs 350-386
TriggerDriveTo(t, destination) ==
    /\ train_position[t] # NoNode
    /\ \E r \in shortest_path(Roads[graph], train_position[t], destination) :
          IF r.some
          THEN /\ route' = [route EXCEPT ![t] =
                               SomeRoute([i \in 1..keep(Roads[graph], r.path) |->
                                             <<r.path[i], FALSE>>])]
               /\ returned' = Returned(t, TRUE)
          ELSE /\ UNCHANGED route
               /\ returned' = Returned(t, FALSE)
    /\ sent' = <<>>
    /\ decided' = NoDecision
    /\ UNCHANGED <<signal, calculation_group, sigLock, groupLock, sensor, timer,
                   task, call, subscription, last_level>>
    /\ UNCHANGED <<spVars, bdVars, switch, graph, train_position, planned>>

\* a pop_front that takes one entry only
pop_front_once(r, sensor_node) == IF r = <<>> THEN r ELSE Tail(r)

\* train.rs 196-200: pop_front until the popped node is the sensor
RECURSIVE pop_until(_, _)
pop_until(r, sensor_node) ==
    IF r = <<>> THEN r
    ELSE IF Head(r)[1] = sensor_node THEN Tail(r)
    ELSE pop_until(Tail(r), sensor_node)

\* request_next_block, train.rs 217-227: an empty route becomes None
emptied(r) == IF r = <<>> THEN NoRoute ELSE SomeRoute(r)

\* request_next_block, train.rs 231-249: the signal the train asks next, 0
\* when it asks none.  The loop counts the granted signals in front and stops
\* at the first one not granted; with no granted signal the call returns.
RECURSIVE next_signal(_, _, _)
next_signal(g, r, blocks_count) ==
    IF r = <<>> THEN 0
    ELSE IF g.kind[Head(r)[1]] = "Signal"
         THEN IF Head(r)[2] THEN next_signal(g, Tail(r), blocks_count + 1)
              ELSE IF blocks_count < 1 THEN 0 ELSE g.addr[Head(r)[1]]
         ELSE next_signal(g, Tail(r), blocks_count)

\* Train::sensor_entered, train.rs 174-205, with request_next_block, 208-260.
\* The request of lines 251-258 locks the signal and waits in request_block
\* for a task that needs that lock.
SensorEntered(t, sensor_node) ==
    /\ train_position[t] # NoNode
    /\ call[t].pc = "idle"
    /\ LET g == Roads[graph]
           r == route[t].route
           sensors == {i \in DOMAIN r : is_driveable(g, r[i][1])}
           first == CHOOSE i \in sensors : \A j \in sensors : i <= j
       IN  IF route[t].some /\ sensors # {} /\ r[first][1] = sensor_node
           THEN LET rest == pop_until(r, sensor_node)
                    s == next_signal(g, rest, 0)
                IN  /\ train_position' = [train_position EXCEPT ![t] = r[first][1]]
                    /\ route' = [route EXCEPT ![t] = emptied(rest)]
                    /\ IF s # 0 /\ s \in SignalAddrs
                       THEN /\ sigLock[s] = FreeLock
                            /\ Len(signal[s].requesters) < MaxQueue
                            /\ FirstUnused # 0
                            /\ sigLock' = [sigLock EXCEPT ![s] = TrainHolder(t)]
                            /\ signal' = [signal EXCEPT ![s] = request_block(@, t)]
                            /\ task' = [task EXCEPT ![FirstUnused] =
                                           [pc |-> "lock", sig |-> s, kind |-> "spawn",
                                            owner |-> t]]
                            /\ call' = [call EXCEPT ![t] = [pc |-> "join_next", sig |-> s]]
                       ELSE UNCHANGED <<signal, sigLock, task, call>>
           ELSE UNCHANGED <<train_position, route, signal, sigLock, task, call>>
    /\ sent' = <<>>
    /\ returned' = NoReturn
    /\ decided' = NoDecision
    /\ UNCHANGED <<calculation_group, groupLock, sensor, timer, subscription, last_level>>
    /\ UNCHANGED <<spVars, bdVars, switch, graph, planned>>

\* the nodes with an edge to n, and those n has an edge to
Before(g, n) == {g.edges[i][1] : i \in {j \in DOMAIN g.edges : g.edges[j][2] = n}}
Behind(g, n) == {g.edges[i][2] : i \in {j \in DOMAIN g.edges : g.edges[j][1] = n}}

RouteNext ==
    \/ \E r \in DOMAIN Roads : Build(r)
    \/ \E a \in SwitchAddrs, dir \in {"Straight", "Curved"} : SwitchCall(a, dir)
    \/ \E a \in SwitchAddrs, dir \in {"Straight", "Curved"} : AckSwitchState(a, dir)
    \/ \E a \in SwitchAddrs, n \in RoadNodes(Roads[graph]) :
          \E f \in Before(Roads[graph], n), t \in Behind(Roads[graph], n) :
              RequestPath(a, n, f, t)
    \/ \E t \in Trains, n \in RoadNodes(Roads[graph]) : NewTrain(t, n)
    \/ \E t \in Trains, n \in RoadNodes(Roads[graph]) : TriggerDriveTo(t, n)
    \/ \E t \in Trains, n \in RoadNodes(Roads[graph]) : SensorEntered(t, n)

RouteSpec == Init /\ [][RouteNext]_vars

\* the latest step published the message m
Published(m) ==
    \E i \in DOMAIN sent :
        sent[i].kind = m.kind /\ sent[i].a = m.a /\ sent[i].b = m.b

\* C17: an acknowledgement of the direction that switch has just commanded
\* leaves the switch commanded to that direction and acknowledged, and
\* publishes nothing; switch towards the direction the switch is commanded
\* to and acknowledged in publishes nothing and changes nothing.
C17_CommandAck ==
    [][\A a \in SwitchAddrs, d \in {"Straight", "Curved"} :
          /\ (AckSwitchState(a, d) /\ Published(SwitchMsg(a, d)))
             => /\ switch'[a] = [dir |-> d, updated |-> TRUE]
                /\ sent' = <<>>
          /\ (SwitchCall(a, d) /\ switch[a] = [dir |-> d, updated |-> TRUE])
             => /\ sent' = <<>>
                /\ switch' = switch]_vars

\* The switches right behind signal s that its road runs through on the
\* curved branch, each with the node the road leaves it by.
CurvedSwitches(s) ==
    LET n == representing_node(s) IN
    {<<sw, to>> \in Nodes \X Nodes :
        /\ NodeKind[sw] = "Switch"
        /\ sw \in Range(OutNbrs(n))
        /\ to \in Range(OutNbrs(sw))
        /\ path_dir(Roads[1], sw, n, to) = "Curved"}

\* C18: a train that waits at a signal whose road runs through a switch on
\* its curved branch, with the block free and the switch in its default
\* state, is granted the road with the switch commanded: Switch(addr, Curved)
\* gets published.
C18_SwitchCommanded ==
    \A s \in SignalAddrs : \A p \in CurvedSwitches(s) :
        (/\ signal[s].requesters # <<>>
         /\ BlockFree(s)
         /\ switch[NodeAddr[p[1]]] = NewSwitch)
        ~> Published(SwitchMsg(NodeAddr[p[1]], "Curved"))

\* C19: a route that is present is not empty (a route emptied by a pop has
\* become None) and ends on a sensor or a station, whatever node the train
\* was sent to.
C19_RouteEndsDriveable ==
    \A t \in Trains :
        route[t].some
        => /\ route[t].route # <<>>
           /\ is_driveable(Roads[graph], route[t].route[Len(route[t].route)][1])

\* a train has entered the first sensor of its route and still has a way to
\* go: the route now starts behind the train's position
C19_EnteredOnRoute ==
    \E t \in Trains :
        /\ route[t].some
        /\ route[t].route # <<>>
        /\ route[t].route[1][1] # train_position[t]

(***************************************************************************)
(* The route planner called on its own, railroad.rs 51-76.                 *)
(***************************************************************************)
\* Railroad::shortest_path(rail, start, destination) on the railroad as it
\* stands: the sensors some train holds count in node_cost.
ShortestPath(start, destination) ==
    /\ \E r \in shortest_path(Roads[graph], start, destination) :
          planned' = [road |-> graph, start |-> start,
                      destination |-> destination, result |-> r]
    /\ sent' = <<>>
    /\ returned' = NoReturn
    /\ decided' = NoDecision
    /\ UNCHANGED <<signal, calculation_group, sigLock, groupLock, sensor, timer,
                   task, call, subscription, last_level>>
    /\ UNCHANGED <<spVars, bdVars, switch, graph, train_position, route>>

PlanNext ==
    \/ \E r \in DOMAIN Roads : Build(r)
    \/ \E a \in SensorAddrs, t \in Trains : BlockCall(a, t)
    \/ \E n, m \in RoadNodes(Roads[graph]) : ShortestPath(n, m)

PlanSpec == Init /\ [][PlanNext]_vars

\* p is a directed path of g from start to destination
IsPath(g, p, start, destination) ==
    /\ p # <<>>
    /\ p[1] = start
    /\ p[Len(p)] = destination
    /\ \A i \in 1..(Len(p) - 1) : \E j \in DOMAIN g.edges : g.edges[j] = <<p[i], p[i + 1]>>

\* what p costs: per edge its rails and the node it enters
RECURSIVE PathCost(_, _)
PathCost(g, p) ==
    IF Len(p) < 2 THEN 0
    ELSE edge_cost(g, CHOOSE j \in DOMAIN g.edges : g.edges[j] = <<p[1], p[2]>>)
         + PathCost(g, Tail(p))

\* The least cost of a directed path from start to every node (Unscored for
\* the nodes without one), by relaxing all edges rounds times.
RECURSIVE Cheapest(_, _, _)
Cheapest(g, d, rounds) ==
    IF rounds = 0 THEN d
    ELSE Cheapest(g,
             [n \in RoadNodes(g) |->
                 LET into == {j \in DOMAIN g.edges :
                                 g.edges[j][2] = n /\ d[g.edges[j][1]] # Unscored}
                     costs == {d[g.edges[j][1]] + edge_cost(g, j) : j \in into}
                              \cup (IF d[n] # Unscored THEN {d[n]} ELSE {})
                 IN  IF costs = {} THEN Unscored
                     ELSE CHOOSE c \in costs : \A o \in costs : c <= o],
             rounds - 1)
LeastCost(g, start, destination) ==
    Cheapest(g, [n \in RoadNodes(g) |-> IF n = start THEN 0 ELSE Unscored],
             Len(g.kind))[destination]

\* What the planner returns is sound: None exactly for an unreachable
\* destination, else a directed path from start to destination with the sum
\* of its edge costs.
PlannerReturnsPath ==
    [][\A n, m \in RoadNodes(Roads[graph]) :
          ShortestPath(n, m)
          => LET g == Roads[graph]
                 r == planned'.result
             IN  /\ r.some <=> LeastCost(g, n, m) # Unscored
                 /\ r.some => /\ IsPath(g, r.path, n, m)
                              /\ r.cost = PathCost(g, r.path)]_vars

\* C20: shortest_path returns None exactly for an unreachable destination,
\* and else a directed path from start to destination together with its
\* cost (rails plus entered nodes), which no other such path undercuts.
C20_Optimal ==
    [][\A n, m \in RoadNodes(Roads[graph]) :
          ShortestPath(n, m)
          => LET g == Roads[graph]
                 r == planned'.result
             IN  /\ r.some <=> LeastCost(g, n, m) # Unscored
                 /\ r.some => /\ IsPath(g, r.path, n, m)
                              /\ r.cost = PathCost(g, r.path)
                              /\ r.cost = LeastCost(g, n, m)]_vars

\* The planner while trains are blocked on sensors and train 1 is driven.
CostNext ==
    \/ \E r \in DOMAIN Roads : Build(r)
    \/ \E a \in SensorAddrs, t \in Trains : BlockCall(a, t)
    \/ \E target \in {Stop, Drive(1)} : SetSpeed(target)
    \/ \E n, m \in RoadNodes(Roads[graph]) : ShortestPath(n, m)

CostSpec == Init /\ [][CostNext]_vars

\* What entering node n is to cost: 500 for a Station, 100 for a Sensor whose
\* train stands, 27 for a Sensor whose train moves, 2 for every other node.
EnterCost(g, n) ==
    CASE g.kind[n] = "Station" -> 500
      [] g.kind[n] = "Sensor" /\ sensor[g.addr[n]].train # NoTrain ->
             IF stands(sensor[g.addr[n]].train) THEN 100 ELSE 27
      [] OTHER -> 2

\* a path's rails and the costs of the nodes it enters
RECURSIVE RouteCost(_, _)
RouteCost(g, p) ==
    IF Len(p) < 2 THEN 0
    ELSE LET i == CHOOSE j \in DOMAIN g.edges : g.edges[j] = <<p[1], p[2]>>
         IN  SumRails(g.rails[i]) + EnterCost(g, p[2]) + RouteCost(g, Tail(p))

\* C34: the cost the planner returns with a path is the length of the path's
\* rails plus, per node entered, 500 for a Station, 100 for a Sensor with a
\* standing train, 27 for a Sensor with a moving train and 2 otherwise.
C34_NodeCosts ==
    [][(planned' # planned /\ planned'.result.some)
       => planned'.result.cost = RouteCost(Roads[graph], planned'.result.path)]_vars

(***************************************************************************)
(* Builder::connect and connect_bidirectional, railroad.rs 429-462.        *)
(***************************************************************************)
\* the test of line 435-436: `?` gives up on an index that is no node
connect_ok(g, from, to) ==
    /\ from \in BuilderNodes
    /\ to \in BuilderNodes
    /\ can_add_neighbour(g, from, "Outgoing")
    /\ can_add_neighbour(g, to, "Incoming")

Connect(from, to, rail) ==
    /\ IF connect_ok(builder, from, to)
       THEN /\ builder' = update_edge(builder, from, to, rail)
            /\ connected' = SomeEdges("connect", << <<from, to>> >>)
       ELSE /\ UNCHANGED builder
            /\ connected' = Refused("connect", << <<from, to>> >>)
    /\ sent' = <<>>
    /\ UNCHANGED <<ilVars, spVars, rtVars, joined, fulfilment, building, measured, sig_type>>

\* lines 450-461: all four slots are tested, then both edges are added
ConnectBidirectional(from, to, rail) ==
    LET es == << <<from[1], to[1]>>, <<from[2], to[2]>> >> IN
    /\ IF /\ \A i \in 1..2 : from[i] \in BuilderNodes /\ to[i] \in BuilderNodes
          /\ can_add_neighbour(builder, from[1], "Outgoing")
          /\ can_add_neighbour(builder, to[1], "Incoming")
          /\ can_add_neighbour(builder, from[2], "Outgoing")
          /\ can_add_neighbour(builder, to[2], "Incoming")
       THEN /\ builder' = update_edge(update_edge(builder, from[1], to[1], rail),
                                      from[2], to[2], rail)
            /\ connected' = SomeEdges("connect_bidirectional", es)
       ELSE /\ UNCHANGED builder
            /\ connected' = Refused("connect_bidirectional", es)
    /\ sent' = <<>>
    /\ UNCHANGED <<ilVars, spVars, rtVars, joined, fulfilment, building, measured, sig_type>>

BuilderNext ==
    \/ \E from, to \in NodeInputs, rail \in RailInputs : Connect(from, to, rail)
    \/ \E from, to \in BuilderNodes \X BuilderNodes, rail \in RailInputs :
          ConnectBidirectional(from, to, rail)

BuilderSpec == Init /\ [][BuilderNext]_vars

\* C21: every switch of the graph under construction has at most 2 incoming
\* and at most 2 outgoing edges, and never 2 of both.
C21_SwitchFanOut ==
    \A n \in BuilderNodes :
        BuilderKind[n] = "Switch"
        => /\ ins(builder, n) <= 2
           /\ out(builder, n) <= 2
           /\ ~(ins(builder, n) = 2 /\ out(builder, n) = 2)

\* C22: every node that is no switch has at most one incoming and at most
\* one outgoing edge.
C22_NonSwitchDegree ==
    \A n \in BuilderNodes :
        BuilderKind[n] # "Switch"
        => ins(builder, n) <= 1 /\ out(builder, n) <= 1

\* The per-kind limit of edges in one direction, and a free slot under it.
SlotLimit(n) == IF BuilderKind[n] = "Switch" THEN 2 ELSE 1
FreeSlot(g, n, dir) ==
    /\ n \in BuilderNodes
    /\ IF dir = "Incoming" THEN ins(g, n) < SlotLimit(n) ELSE out(g, n) < SlotLimit(n)

\* what one directed connect is to do to graph g: add the edge when both
\* slots are free, and nothing else
Connected(g, e, h) ==
    IF FreeSlot(g, e[1], "Outgoing") /\ FreeSlot(g, e[2], "Incoming")
    THEN /\ Ends(h) = Ends(g) \cup {e}
         /\ \A o \in Ends(g) \ {e} : h[o] = g[o]
    ELSE h = g

C24_BothOrNone ==
    [][connected'.call = "connect_bidirectional"
       => LET e1 == connected'.edges[1]
              e2 == connected'.edges[2]
              first == FreeSlot(builder, e1[1], "Outgoing")
                       /\ FreeSlot(builder, e1[2], "Incoming")
              g1 == IF first THEN update_edge(builder, e1[1], e1[2], builder'[e1])
                    ELSE builder
              second == FreeSlot(g1, e2[1], "Outgoing") /\ FreeSlot(g1, e2[2], "Incoming")
          IN  IF first /\ second
              THEN /\ connected'.some
                   /\ Ends(builder') = Ends(builder) \cup {e1, e2}
              ELSE /\ ~connected'.some
                   /\ builder' = builder]_vars

(***************************************************************************)
(* Status joined with |, components/mod.rs 818-835.                        *)
(***************************************************************************)
StatusJoin(ops) ==
    /\ joined' = [operands |-> ops,
                  left |-> fold_left(ops),
                  right |-> fold_right(ops),
                  reversed |-> fold_left(Reverse(ops))]
    /\ sent' = <<>>
    /\ UNCHANGED <<ilVars, spVars, rtVars, builder, connected, fulfilment, building, measured, sig_type>>

JoinNext ==
    \E n \in 1..MaxOperands : \E ops \in [1..n -> Status] : StatusJoin(ops)

JoinSpec == Init /\ [][JoinNext]_vars

\* C25: | on Status is associative, commutative and idempotent, Free is its
\* identity and Occupied absorbs: a chain of joins gives the same Status in
\* whatever grouping and order it is evaluated, a value joined with itself or
\* with Free stays, and a chain with an Occupied operand gives Occupied.
C25_JoinLaws ==
    LET ops == joined.operands IN
    /\ joined.left = joined.right
    /\ joined.left = joined.reversed
    /\ (Len(ops) = 2 /\ ops[1] = ops[2]) => joined.left = ops[1]
    /\ (Len(ops) = 2 /\ ops[1] = "Free") => joined.left = ops[2]
    /\ (Len(ops) = 2 /\ ops[2] = "Free") => joined.left = ops[1]
    /\ (\E i \in DOMAIN ops : ops[i] = "Occupied") => joined.left = "Occupied"

\* three different values, none of them Free, have been joined
C25_ThreeJoined ==
    /\ Len(joined.operands) = 3
    /\ Cardinality({joined.operands[i] : i \in 1..3}) = 3
    /\ \A i \in 1..3 : joined.operands[i] # "Free"

(***************************************************************************)
(* The free-road check of Signal::drive under Signal::trigger_update,      *)
(* mod.rs 1148-1157 and signal_checks.rs 145-174.                          *)
(***************************************************************************)
\* Signal::trigger_update called on the guard of the signal's mutex
TriggerUpdate(s, trigger) ==
    /\ sigLock[s] = FreeLock
    /\ signal' = [signal EXCEPT ![s].status = trigger_update(@, trigger)]
    /\ sent' = <<>>
    /\ decided' = NoDecision
    /\ returned' = NoReturn
    /\ UNCHANGED <<spVars, bdVars, rtVars, last_level>>
    /\ UNCHANGED <<calculation_group, sigLock, groupLock, sensor, timer, task, call,
                   subscription>>

DriveNext ==
    \/ \E t \in Trains, n \in Positions : ResetPosition(t, n)
    \/ \E t \in Trains : Resume(t)
    \/ \E s \in SignalAddrs : Update(s)
    \/ \E k \in Tasks : TaskLock(k)
    \/ \E k \in Tasks : TaskGroup(k)
    \/ \E k \in Tasks : TaskDrive(k)
    \/ \E s \in SignalAddrs, trigger \in Status : TriggerUpdate(s, trigger)
    \/ \E a \in GuardedSensors, t \in Trains : BlockSensor(a, t)
    \/ \E a \in GuardedSensors, t \in Trains : FreeSensor(a, t)

DriveSpec == Init /\ [][DriveNext]_vars

\* every sensor of the signal's block has status Free or PathFree
SensorsFree(s) ==
    \A a \in Range(block_sensors[s]) : sensor[a].status \in {"Free", "PathFree"}

\* C29: a run of next for a Block signal with a waiting requester finds a free
\* road exactly when every sensor of block_sensors has status Free or PathFree,
\* and the road it finds is block_sensors.
C29_BlockGrantCondition ==
    [][\A s \in SignalAddrs :
          (/\ sig_type[s] = "Block"
           /\ decided'.sig = s
           /\ signal[s].requesters # <<>>)
          => /\ decided'.result # "blocked" <=> SensorsFree(s)
             /\ decided'.result # "blocked" => drive(s).road = block_sensors[s]]_vars

(***************************************************************************)
(* Path signals: Signal::drive with the lookahead of path_behaviour,       *)
(* signal_checks.rs 145-194 and 241-276.                                   *)
(***************************************************************************)
\* The trains that are put on the track and sent on a route; the others
\* request blocks without a route.
RoutedTrains == {t \in Trains : t = 1}

PathNext ==
    \/ \E t \in RoutedTrains, n \in RoadNodes(Roads[graph]) : NewTrain(t, n)
    \/ \E t \in RoutedTrains, n \in RoadNodes(Roads[graph]) : TriggerDriveTo(t, n)
    \/ \E t \in Trains, n \in Positions : ResetPosition(t, n)
    \/ \E t \in Trains : Resume(t)
    \/ \E k \in Tasks : TaskLock(k)
    \/ \E k \in Tasks : TaskGroup(k)
    \/ \E k \in Tasks : TaskDrive(k)
    \/ \E a \in GuardedSensors, t \in Trains : BlockSensor(a, t)

PathSpec == PathInit /\ [][PathNext]_vars

\* The lookahead of signal s for train t: the train's route passes the signal
\* and every sensor on it behind the signal, up to the next signal or the
\* route's end, is Free.
LookaheadFree(s, t) ==
    LET g == Roads[graph]
        rt == get_route(t, s)
    IN  /\ rt.some
        /\ \A i \in 2..Len(rt.path) :
               g.kind[rt.path[i]] \in {"Sensor", "Station"}
               => sensor[g.addr[rt.path[i]]].status = "Free"

\* C30: a run of next for a Path signal finds a free road for the head of its
\* queue only when the lookahead for that train is free; when the lookahead
\* fails the signal does not go by the block's sensors alone.
C30_PathLookahead ==
    [][\A s \in SignalAddrs :
          (/\ sig_type[s] = "Path"
           /\ decided'.sig = s
           /\ decided'.result \in {"skipped", "granted"}
           /\ signal[s].requesters # <<>>)
          => LookaheadFree(s, Head(signal[s].requesters))]_vars

\* The chain Free < Reserved < PathFree < Occupied and its least upper bound.
ChainRank(st) ==
    CASE st = "Free" -> 0
      [] st = "Reserved" -> 1
      [] st = "PathFree" -> 2
      [] st = "Occupied" -> 3
Lub(a, b) == IF ChainRank(a) >= ChainRank(b) THEN a ELSE b

\* C35: trigger_update leaves the signal with the least upper bound of its old
\* status and the trigger on the chain Free < Reserved < PathFree < Occupied.
C35_TriggerLub ==
    [][\A s \in SignalAddrs, trig \in Status :
          TriggerUpdate(s, trig) => signal'[s].status = Lub(signal[s].status, trig)]_vars

(***************************************************************************)
(* A Builder that adds and removes elements, railroad.rs 185-461.          *)
(***************************************************************************)
Building(b) ==
    /\ building' = b
    /\ sent' = <<>>
    /\ UNCHANGED <<ilVars, spVars, rtVars, builder, connected, joined, fulfilment,
                   measured, sig_type>>

\* Builder::add_sensor, railroad.rs 211-227
AddSensor(adr) ==
    /\ Len(building.road) < MaxNodes
    /\ LET node == Len(building.road) + 1 IN
       Building([building EXCEPT
                    !.road = add_node(@, "Sensor", adr),
                    !.sensors = push_nodes(@, adr, <<node>>)])

\* Builder::add_bidirectional_sensor, railroad.rs 229-247
AddBidirectionalSensor(adr) ==
    /\ Len(building.road) + 1 < MaxNodes
    /\ LET node == Len(building.road) + 1
           node_reverse == Len(building.road) + 2
       IN  Building([building EXCEPT
                        !.road = add_node(add_node(@, "Sensor", adr), "Sensor", adr),
                        !.sensors = push_nodes(@, adr, <<node, node_reverse>>)])

\* Builder::add_station, railroad.rs 259-275
AddStation(station) ==
    /\ Len(building.road) < MaxNodes
    /\ LET index == Len(building.road) + 1 IN
       Building([building EXCEPT
                    !.road = add_node(@, "Station", station),
                    !.sensors = push_nodes(@, station, <<index>>)])

\* Builder::add_signal, railroad.rs 287-302
AddSignal(sig) ==
    /\ Len(building.road) < MaxNodes
    /\ IF sig \in DOMAIN building.signals
       THEN Building(building)
       ELSE LET node == Len(building.road) + 1 IN
            Building([building EXCEPT
                         !.road = add_node(@, "Signal", sig),
                         !.signals = insert(@, sig, node)])

\* Builder::add_crossing, railroad.rs 304-320
AddCrossing(cross) ==
    /\ Len(building.road) + 1 < MaxNodes
    /\ IF cross \in DOMAIN building.crossings
       THEN Building(building)
       ELSE LET node1 == Len(building.road) + 1
                node2 == Len(building.road) + 2
            IN  Building([building EXCEPT
                             !.road = add_node(add_node(@, "Cross", cross), "Cross", cross),
                             !.crossings = insert(@, cross, <<node1, node2>>)])

\* Builder::add_switch, railroad.rs 342-358
AddSwitch(sw) ==
    /\ Len(building.road) < MaxNodes
    /\ LET index == Len(building.road) + 1 IN
       Building([building EXCEPT
                    !.road = add_node(@, "Switch", sw),
                    !.switches = push_nodes(@, sw, <<index>>)])

\* Builder::add_bidirectional_switch, railroad.rs 360-378
AddBidirectionalSwitch(sw) ==
    /\ Len(building.road) + 1 < MaxNodes
    /\ LET index == Len(building.road) + 1
           index_reverse == Len(building.road) + 2
       IN  Building([building EXCEPT
                        !.road = add_node(add_node(@, "Switch", sw), "Switch", sw),
                        !.switches = push_nodes(@, sw, <<index, index_reverse>>)])

\* the pairs of NodeIndex values handed to connect: a ring through the
\* nodes and one pair with an index beyond them
ConnectInputs ==
    {<<n, (n % MaxNodes) + 1>> : n \in 1..MaxNodes} \cup {<<1, MaxNodes + 1>>}

\* Builder::remove_sensor, railroad.rs 384-386
RemoveSensor(adr) ==
    /\ adr \in BuilderAddrs
    /\ Building([building EXCEPT !.sensors = remove(@, adr)])

\* Builder::remove_signal, railroad.rs 388-392
RemoveSignal(adr) ==
    /\ adr \in BuilderAddrs
    /\ IF adr \in DOMAIN building.signals
       THEN LET node == building.signals[adr] IN
            Building([building EXCEPT
                         !.signals = remove(@, adr),
                         !.road = remove_node_road(@, node),
                         !.edges = remove_node_edges(building.road, @, node)])
       ELSE Building(building)

\* Builder::remove_crossing, railroad.rs 394-396
RemoveCrossing(adr) ==
    /\ adr \in BuilderAddrs
    /\ Building([building EXCEPT !.crossings = remove(@, adr)])

\* Builder::remove_switch, railroad.rs 398-400
RemoveSwitch(adr) ==
    /\ adr \in BuilderAddrs
    /\ Building([building EXCEPT !.switches = remove(@, adr)])

\* Builder::can_add_neighbour, railroad.rs 402-427, on the graph of building:
\* FALSE stands for both Some(false) and None (no such node)
free_slot(b, node, dir) ==
    LET i == Cardinality({e \in b.edges : e[2] = node})
        o == Cardinality({e \in b.edges : e[1] = node})
    IN  /\ node \in DOMAIN b.road
        /\ IF b.road[node].kind = "Switch"
           THEN switch_max_neighbours(i, o, dir)
           ELSE (dir = "Incoming" /\ i < 1) \/ (dir = "Outgoing" /\ o < 1)

\* Builder::connect, railroad.rs 429-442, on the graph of building
ConnectNodes(from, to) ==
    /\ <<from, to>> \in ConnectInputs
    /\ IF free_slot(building, from, "Outgoing") /\ free_slot(building, to, "Incoming")
       THEN Building([building EXCEPT !.edges = @ \cup {<<from, to>>}])
       ELSE Building(building)

RemovalNext ==
    \/ \E a \in BuilderAddrs : AddSensor(a)
    \/ \E a \in BuilderAddrs : AddBidirectionalSensor(a)
    \/ \E a \in BuilderAddrs : AddStation(a)
    \/ \E a \in BuilderAddrs : AddSignal(a)
    \/ \E a \in BuilderAddrs : AddCrossing(a)
    \/ \E a \in BuilderAddrs : AddSwitch(a)
    \/ \E a \in BuilderAddrs : AddBidirectionalSwitch(a)
    \/ \E a \in BuilderAddrs : RemoveSensor(a)
    \/ \E a \in BuilderAddrs : RemoveSignal(a)
    \/ \E a \in BuilderAddrs : RemoveCrossing(a)
    \/ \E a \in BuilderAddrs : RemoveSwitch(a)
    \/ \E e \in ConnectInputs : ConnectNodes(e[1], e[2])

RemovalSpec == Init /\ [][RemovalNext]_vars

\* node index n of the graph is a node of one of the kinds with address adr
IsNode(b, n, kinds, adr) ==
    /\ n \in DOMAIN b.road
    /\ b.road[n].kind \in kinds
    /\ b.road[n].addr = adr

\* the sequence holds n
Lists(seq, n) == \E i \in DOMAIN seq : seq[i] = n

\* C39: every node index recorded for an address (a signal's
\* representing_node, the index lists of sensors and switches, the node pair
\* of a crossing) is a node of the graph whose variant carries that address,
\* and every addressed node of the graph is recorded under its address.
C39_ReverseMaps ==
    LET b == building IN
    /\ \A a \in DOMAIN b.signals : IsNode(b, b.signals[a], {"Signal"}, a)
    /\ \A a \in DOMAIN b.sensors : \A i \in DOMAIN b.sensors[a] :
           IsNode(b, b.sensors[a][i], {"Sensor", "Station"}, a)
    /\ \A a \in DOMAIN b.switches : \A i \in DOMAIN b.switches[a] :
           IsNode(b, b.switches[a][i], {"Switch"}, a)
    /\ \A a \in DOMAIN b.crossings : \A i \in DOMAIN b.crossings[a] :
           IsNode(b, b.crossings[a][i], {"Cross"}, a)
    /\ \A n \in DOMAIN b.road :
           LET adr == b.road[n].addr IN
           CASE b.road[n].kind = "Signal" ->
                    adr \in DOMAIN b.signals /\ b.signals[adr] = n
             [] b.road[n].kind \in {"Sensor", "Station"} ->
                    adr \in DOMAIN b.sensors /\ Lists(b.sensors[adr], n)
             [] b.road[n].kind = "Switch" ->
                    adr \in DOMAIN b.switches /\ Lists(b.switches[adr], n)
             [] b.road[n].kind = "Cross" ->
                    adr \in DOMAIN b.crossings /\ Lists(b.crossings[adr], n)

(***************************************************************************)
(* Coordinates: Coord::step, is_on_line and distance, mod.rs 290-386.      *)
(***************************************************************************)
\* the coordinates handed to step and distance, on two levels
Coords == (0..MaxCoord) \X (0..MaxCoord) \X (0..1)

\* the directions along the straight line through two coordinates: an axis,
\* or a diagonal of their level
Along(self, coord) ==
    IF self[2] = coord[2] /\ self[3] = coord[3] THEN {"North", "South"}
    ELSE IF self[1] = coord[1] /\ self[3] = coord[3] THEN {"East", "West"}
    ELSE IF self[1] = coord[1] /\ self[2] = coord[2] THEN {"Up", "Down"}
    ELSE IF check_diagonal(self, coord)
         THEN {"Northeast", "Southeast", "Southwest", "Northwest"}
         ELSE {}

\* the calls of distance: two different coordinates on a straight line and a
\* direction along it, pointing either way
DistanceInputs ==
    {l \in Coords \X Coords \X Directions : l[1] # l[2] /\ l[3] \in Along(l[1], l[2])}

\* self.is_on_line(coord, dir) and self.distance(coord, dir) evaluated for the
\* call fn; a subtraction that underflows settles how the build treats
\* overflow
Measure(fn, self, dir, amount, coord) ==
    LET ops == distance_operands(self, coord.coord, dir)
        underflows == is_on_line(self, coord.coord, dir) /\ ops[1] < ops[2]
    IN  /\ IF coord.some /\ underflows
           THEN overflow_checks' \in IF overflow_checks = "open" THEN {"on", "off"}
                                     ELSE {overflow_checks}
           ELSE UNCHANGED overflow_checks
        /\ measured' =
               [call |-> fn, self |-> self, dir |-> dir, amount |-> amount,
                coord |-> coord,
                on_line |-> coord.some /\ is_on_line(self, coord.coord, dir),
                distance |-> IF coord.some
                             THEN distance(self, coord.coord, dir, overflow_checks')
                             ELSE NoDistance]
        /\ sent' = <<>>
        /\ UNCHANGED <<ilVars, rtVars, builder, connected, joined, fulfilment,
                       building, sig_type, speed, speed_updater, set_speed, ramp,
                       last_msg>>

\* self.step(dir, amount) and, for the coordinate it gives, is_on_line and
\* distance from self
Step(self, dir, amount) ==
    /\ amount >= 1
    /\ Measure("step", self, dir, amount, step(self, dir, amount))

\* self.distance(coord, dir), as Rail::perform_step calls it, mod.rs 479-488
Distance(self, coord, dir) ==
    /\ self # coord
    /\ Measure("distance", self, dir, 0, SomeCoord(coord))

GeometryNext ==
    \/ \E self \in Coords, dir \in Directions, amount \in 1..MaxCoord :
          Step(self, dir, amount)
    \/ \E l \in DistanceInputs : Distance(l[1], l[2], l[3])

GeometrySpec == Init /\ [][GeometryNext]_vars

\* C40: a coordinate that step gives is on the line from the start in the
\* direction of the step, at the distance of the step's amount; and the
\* distance to every coordinate that is on the line is a value, computed
\* without an underflow.
C40_GeometryConsistent ==
    /\ (measured.call = "step" /\ measured.coord.some)
       => /\ measured.on_line
          /\ measured.distance = SomeDistance(measured.amount)
    /\ measured.on_line => measured.distance.kind = "Some"

(***************************************************************************)
(* The timetable's waiting nodes, train.rs 440-496.                        *)
(***************************************************************************)
\* Station::could_arrive / could_depart on a node: what check gives for its
\* waiters and for its childs and what the node fulfills
CouldArrive(node) ==
    /\ fulfilment' = [node |-> node,
                      waiters |-> check(node.connector, node.waiters),
                      childs |-> check(node.connector, node.childs),
                      result |-> fulfills(node)]
    /\ sent' = <<>>
    /\ UNCHANGED <<ilVars, spVars, rtVars, builder, connected, joined, building, measured, sig_type>>

Branches == UNION {[1..n -> BOOLEAN] : n \in 0..MaxBranches}

TimetableNext ==
    \E connector \in WaitingReasonOperator, waiters \in Branches, childs \in Branches :
        CouldArrive(WaitingNode(connector, waiters, childs))

TimetableSpec == Init /\ [][TimetableNext]_vars

\* all values of the list are the same
AllAgree(fulfilled) ==
    \A i, j \in DOMAIN fulfilled : fulfilled[i] = fulfilled[j]

\* C38: an XNOR waiting node evaluates a list of branch results to true if
\* and only if all of them have the same truth value, and the empty list to
\* true.
C38_XnorAllAgree ==
    fulfilment.node.connector = "XNOR"
    => /\ fulfilment.waiters = AllAgree(fulfilment.node.waiters)
       /\ fulfilment.childs = AllAgree(fulfilment.node.childs)

\* C26: two signals that lead into a common block use the same group mutex,
\* the one of the lowest address among them, and no two runs of next for
\* peers of a block are inside the grant decision at the same time.
C26_PeersSerialized ==
    /\ \A s1, s2 \in SignalAddrs :
           Peers(s1, s2) => calculation_group[s1] = calculation_group[s2]
    /\ \A k, j \in Tasks :
           (k # j /\ task[k].pc = "drive" /\ task[j].pc = "drive")
           => ~Peers(task[k].sig, task[j].sig)

\* The place of a lock in the order group leader, signal, sensor, train.
LockRank(l) ==
    CASE l[1] = "group" -> 1
      [] l[1] = "signal" -> 2
      [] l[1] = "sensor" -> 3
      [] l[1] = "train" -> 4

\* Who can hold locks: the runs of Signal::next and the callers of
\* Train::reset_position.
Holders == {TaskHolder(k) : k \in Tasks} \cup {TrainHolder(t) : t \in Trains}

\* The locks holder h has with signal locks sl and group locks gl.  A method of
\* Train runs on the guard of the train's mutex (Railroad::get_train hands out
\* a &Mutex<Train>), so its caller holds that lock throughout.
Holds(h, sl, gl) ==
    {<<"signal", s>> : s \in {x \in SignalAddrs : sl[x] = h}}
    \cup {<<"group", g>> : g \in {x \in SignalAddrs : gl[x] = h}}
    \cup (IF h[1] = "train" THEN {<<"train", h[2]>>} ELSE {})

\* C27: whoever already holds a lock only acquires locks that come later in the
\* order group leader, signal, sensor, train: no signal lock is taken under a
\* train lock and no group lock under a signal lock.
C27_LockOrder ==
    [][\A h \in Holders :
          \A new \in Holds(h, sigLock', groupLock') \ Holds(h, sigLock, groupLock) :
              \A old \in Holds(h, sigLock, groupLock) :
                  LockRank(old) < LockRank(new)]_vars

\* C28: a caller of request_block that waits for the grant attempt it spawned
\* is never the holder of the signal lock that attempt is waiting for, so the
\* attempt can finish and the call returns.
C28_RequestReturns ==
    \A t \in Trains : \A k \in Tasks :
        ~(/\ call[t].pc = "join"
          /\ task[k].owner = t
          /\ task[k].pc = "lock"
          /\ sigLock[task[k].sig] = TrainHolder(t))

(***************************************************************************)
(* Train::drive_ok and the lookahead of request_next_block, train.rs       *)
(* 158-172 and 208-260.                                                    *)
(***************************************************************************)
\* Train::drive_ok: the first entry of the route with that node is flagged
drive_ok(r, node_index) ==
    LET found == {i \in DOMAIN r : r[i][1] = node_index}
    IN  IF found = {} THEN r
        ELSE [r EXCEPT ![CHOOSE i \in found : \A j \in found : i <= j] = <<node_index, TRUE>>]

DriveOk(t, node_index) ==
    /\ route[t].some
    /\ route' = [route EXCEPT ![t].route = drive_ok(@, node_index)]
    /\ route' # route
    /\ sent' = <<>>
    /\ returned' = NoReturn
    /\ decided' = NoDecision
    /\ UNCHANGED <<signal, calculation_group, sigLock, groupLock, sensor, timer,
                   task, call, subscription, last_level>>
    /\ UNCHANGED <<spVars, bdVars, switch, graph, train_position, planned>>

LookaheadNext ==
    \/ \E r \in DOMAIN Roads : Build(r)
    \/ \E t \in Trains, n \in RoadNodes(Roads[graph]) : NewTrain(t, n)
    \/ \E t \in Trains, n \in RoadNodes(Roads[graph]) : TriggerDriveTo(t, n)
    \/ \E t \in Trains, n \in RoadNodes(Roads[graph]) : SensorEntered(t, n)
    \/ \E t \in Trains : \E n \in {m \in RoadNodes(Roads[graph]) :
                                       Roads[graph].kind[m] = "Signal"} : DriveOk(t, n)

LookaheadSpec == Init /\ [][LookaheadNext]_vars

\* The signal a train with route r is to ask: the first signal of the route
\* that is not granted, when fewer than one granted signal lies before it.
RECURSIVE DueSignal(_, _, _)
DueSignal(g, r, granted) ==
    IF r = <<>> THEN 0
    ELSE IF g.kind[Head(r)[1]] = "Signal"
         THEN IF Head(r)[2] THEN DueSignal(g, Tail(r), granted + 1)
              ELSE IF granted < 1 THEN g.addr[Head(r)[1]] ELSE 0
         ELSE DueSignal(g, Tail(r), granted)

\* C32: when a train has entered the next sensor of its route, it asks the
\* first signal ahead that is not granted exactly when no granted signal lies
\* before it, and asks nothing otherwise.
C32_LookaheadRequest ==
    [][\A t \in Trains :
          (/\ route[t].some
           /\ returned' = NoReturn
           /\ Len(route'[t].route) < Len(route[t].route))
          => LET due == DueSignal(Roads[graph], route'[t].route, 0) IN
             IF due # 0
             THEN call'[t] = [pc |-> "join_next", sig |-> due]
             ELSE call'[t] = call[t]]_vars

\* the place of the first Sensor or Station entry of route r, 0 without one
FirstSensor(g, r) ==
    LET sensors == {i \in DOMAIN r : g.kind[r[i][1]] \in {"Sensor", "Station"}}
    IN  IF sensors = {} THEN 0
        ELSE CHOOSE i \in sensors : \A j \in sensors : i <= j

\* C33: sensor_entered(n) changes route and position only when n is the first
\* Sensor or Station entry of the route: then the entries up to and including
\* n are popped and the position is n, and n is not the next sensor again;
\* for every other n, and without a route, both stay as they are.
C33_RouteProgression ==
    [][\A t \in Trains : \A n \in RoadNodes(Roads[graph]) :
          SensorEntered(t, n)
          => LET g == Roads[graph]
                 r == route[t].route
                 first == FirstSensor(g, r)
             IN  IF route[t].some /\ first # 0 /\ r[first][1] = n
                 THEN /\ route'[t].route = SubSeq(r, first + 1, Len(r))
                      /\ train_position'[t] = n
                      /\ LET again == FirstSensor(g, route'[t].route)
                         IN  again # 0 => route'[t].route[again][1] # n
                 ELSE /\ route'[t] = route[t]
                      /\ train_position'[t] = train_position[t]]_vars

\* a train has entered the first sensor of its route: the route goes on with
\* the nodes behind it
C33_Advanced ==
    \E t \in Trains :
        /\ route[t].some
        /\ route[t].route # <<>>
        /\ Roads[graph].kind[Head(route[t].route)[1]] \notin {"Sensor", "Station"}
        /\ train_position[t] # NoNode

\* The nodes met from the frontier on by walking edges in either direction
\* without going on behind a signal node.
RECURSIVE Around(_, _)
Around(frontier, seen) ==
    IF frontier = {} THEN seen
    ELSE LET grow == UNION {Range(UndirNbrs(n)) :
                               n \in {m \in frontier : NodeKind[m] # "Signal"}}
             new == grow \ seen
         IN  Around(new, seen \cup new)
InBlock(s) ==
    LET first == Range(OutNbrs(representing_node(s)))
    IN  Around(first, first) \ {representing_node(s)}

\* C31: after initialize the block sensors of a signal are the addresses of
\* all Sensor and Station nodes of its block, each once, and its peer signals
\* are all other signals at the block's boundary.
C31_BlockDiscovered ==
    graph = 1 =>
    \A s \in SignalAddrs :
        /\ Range(block_sensors[s])
               = {NodeAddr[n] : n \in {m \in InBlock(s) : NodeKind[m] \in {"Sensor", "Station"}}}
        /\ Len(block_sensors[s]) = Cardinality(Range(block_sensors[s]))
        /\ Range(other_input_signals[s])
               = {NodeAddr[n] : n \in {m \in InBlock(s) : NodeKind[m] = "Signal"}}

TypeOK ==
    /\ \A s \in SignalAddrs : Len(signal[s].requesters) <= MaxQueue
    /\ \A a \in SensorAddrs : timer[a].spawned + timer[a].waiting <= MaxTimers + 1

====
